---- MODULE Spec2Model ----
(***************************************************************************)
(* Model of the batch completion engine of src/src/init_methods_book.py:   *)
(* run_example_batch (the round loop, request building, submission,       *)
(* polling, download, finalization) and parse_round_results (one step per  *)
(* record of a results file).                                              *)
(*                                                                         *)
(* Further specifications over the same variables model the tools:         *)
(* SpecExtract (extract_block on arbitrary short texts), SpecPatch         *)
(* (methods-book/tools/latex_fix_and_patch.py: one diff per region, then   *)
(* git apply of the combined patch), SpecScan                              *)
(* (methods-book/tools/latex_scan_regions.py: parse_errors, guess_file,    *)
(* collect_regions), SpecSlug (slugify on arbitrary short texts),          *)
(* SpecBook (main of init_methods_book.py run again and again on one       *)
(* project directory: the scaffolding generators, the section plans, the   *)
(* chapter files) and SpecPrompt (the prompt of one request of a round).   *)
(* Each specification parks the variables of the others.                   *)
(*                                                                         *)
(* Texts are sequences of tokens.  The four marker strings are one token   *)
(* each, "x" is a run of ordinary text and "nl" is a whitespace character  *)
(* (the newline used as separator, and what str.strip() removes).          *)
(***************************************************************************)
EXTENDS Integers, Sequences, FiniteSets, TLC

\* ------------------------------------------------------------------------
\* Bounds of the model
\* ------------------------------------------------------------------------
MaxRecords == 3      \* result records read in one run, over all rounds
MaxPolls == 2        \* polls of one batch job that may answer in_progress
MaxTextLen == 4      \* tokens of a text handed to extract_block alone
MaxLines == 5        \* lines of the file that is patched
MaxRegions == 2      \* regions loaded by the patcher in one run
MaxErrors == 2       \* error messages in a LaTeX log
MaxErrLine == 2      \* the largest line number a log reports
MaxFileLen == 3      \* lines of a file read by the locator
MaxSlugLen == 4      \* characters of a text handed to slugify alone
MaxRuns == 2         \* runs of main() on one project directory
MaxEdits == 1        \* files the user edits between the runs
MaxPromptLines == 3  \* lines of the text a continuation prompt shows

\* ------------------------------------------------------------------------
\* Program constants
\* ------------------------------------------------------------------------
MAX_ROUNDS == 3
CONTEXT == 3         \* context lines of difflib.unified_diff
LookAhead == 5       \* log lines searched for "l.<n>" after an error line
LookBack == 20       \* log lines kept before an error line
DefaultRadius == 10  \* collect_regions(log_text, radius=10)
TemplateIndent == 28 \* leading spaces of the lines of the continuation prompt

INQ_START == "IS"
INQ_END == "IE"
SOL_START == "SS"
SOL_END == "SE"
Markers == {INQ_START, INQ_END, SOL_START, SOL_END}
NL == "nl"

None == "None"

\* The custom ids a results file may name, and the plans of a run: the keys
\* of spec_by_custom_id in insertion order.  Under the plan <<FirstId>> the
\* second id names no planned example (a results file is external input).
FirstId == "e0"
SecondId == "e1"
AllIds == {FirstId, SecondId}
Plans == {<<>>, <<FirstId>>, <<FirstId, SecondId>>}

\* ------------------------------------------------------------------------
\* Text helpers
\* ------------------------------------------------------------------------
IsSpace(t) == t = NL

RECURSIVE LStrip(_)
LStrip(s) == IF s # <<>> /\ IsSpace(Head(s)) THEN LStrip(Tail(s)) ELSE s

RECURSIVE RStrip(_)
RStrip(s) ==
    IF s # <<>> /\ IsSpace(s[Len(s)]) THEN RStrip(SubSeq(s, 1, Len(s) - 1)) ELSE s

\* str.strip()
Strip(s) == RStrip(LStrip(s))

\* marker in text
Contains(s, m) == \E i \in 1..Len(s) : s[i] = m

\* str.index(marker, from): the first position >= from holding the marker,
\* 0 when there is none (the ValueError case)
IndexFrom(s, m, from) ==
    IF \E i \in from..Len(s) : s[i] = m
    THEN CHOOSE i \in from..Len(s) : s[i] = m /\ \A j \in from..(i - 1) : s[j] # m
    ELSE 0

\* "\n".join(chunks)
RECURSIVE JoinNL(_)
JoinNL(chunks) ==
    IF chunks = <<>> THEN <<>>
    ELSE IF Len(chunks) = 1 THEN chunks[1]
    ELSE chunks[1] \o <<NL>> \o JoinNL(Tail(chunks))

extract_block(full_text, start_marker, end_marker) ==
    LET s == IndexFrom(full_text, start_marker, 1)
        i == s + 1
        j == IndexFrom(full_text, end_marker, i)
    IN  IF s = 0 \/ j = 0 THEN <<>>
        ELSE Strip(SubSeq(full_text, i, j - 1))

\* The content items of the output messages of a response body, flattened:
\* only output_text items with a non-empty text contribute a chunk.
RECURSIVE OutputChunks(_)
OutputChunks(items) ==
    IF items = <<>> THEN <<>>
    ELSE LET it == Head(items)
         IN  IF it.type = "output_text" /\ it.text # <<>>
             THEN <<it.text>> \o OutputChunks(Tail(items))
             ELSE OutputChunks(Tail(items))

extract_output_text_from_response_obj(output) == Strip(JoinNL(OutputChunks(output)))

HasAllMarkers(text) == \A m \in Markers : Contains(text, m)

\* ------------------------------------------------------------------------
\* Result records (the lines of a results file)
\* ------------------------------------------------------------------------
TextItem(t) == [type |-> "output_text", text |-> t]
ReasoningItem == [type |-> "reasoning", text |-> <<>>]

\* The response bodies a record may carry: a complete answer (after a
\* reasoning item, with a trailing newline), an answer cut off before the
\* closing marker (two text items), the tail that closes an answer, a
\* body whose only text is whitespace, and an answer with nothing but
\* whitespace between its solution markers.
CompleteBody ==
    [incomplete_details |-> None,
     output |-> <<ReasoningItem,
                  TextItem(<<INQ_START, "x", INQ_END, NL, SOL_START, "x", SOL_END, NL>>)>>]

TruncatedBody ==
    [incomplete_details |-> "max_output_tokens",
     output |-> <<TextItem(<<INQ_START, "x", INQ_END>>), TextItem(<<SOL_START, "x", NL>>)>>]

TailBody == [incomplete_details |-> None, output |-> <<TextItem(<<"x", SOL_END>>)>>]

BlankBody == [incomplete_details |-> None, output |-> <<TextItem(<<NL>>)>>]

EmptySolutionBody ==
    [incomplete_details |-> None,
     output |-> <<TextItem(<<INQ_START, "x", INQ_END, NL, SOL_START, NL, SOL_END>>)>>]

Bodies == {CompleteBody, TruncatedBody, TailBody, BlankBody, EmptySolutionBody}

MkRecord(id, b) ==
    [custom_id |-> id, has_response |-> TRUE, status_code |-> "200",
     incomplete_details |-> b.incomplete_details, output |-> b.output]

ResponseRecords ==
    {MkRecord(id, b) : id \in AllIds, b \in Bodies}

NoResponseRecords ==
    [custom_id : AllIds, has_response : {FALSE}, status_code : {None},
     incomplete_details : {None}, output : {<<>>}]

\* a line without custom_id (skipped by the parser)
AnonymousRecords ==
    [custom_id : {None}, has_response : {FALSE}, status_code : {None},
     incomplete_details : {None}, output : {<<>>}]

Records == ResponseRecords \cup NoResponseRecords \cup AnonymousRecords

NoRecord == [custom_id |-> "-", has_response |-> FALSE, status_code |-> None,
             incomplete_details |-> None, output |-> <<>>]

\* ------------------------------------------------------------------------
\* State
\* ------------------------------------------------------------------------
VARIABLES
    pc,                  \* position in run_example_batch
    client,              \* TRUE: a client was passed, FALSE: client is None
    planned,             \* list(spec_by_custom_id.keys())
    round_idx,           \* the round being executed (0 before the loop)
    remaining_ids,
    requests,            \* the requests file written in this round
    prev_requested,      \* the ids requested in the previous round
    calls,               \* API calls made in this round
    reused,              \* this round found its results file on disk
    status,              \* job.status of the last poll of this round
    combined_text_by_id,
    example_state_by_id,
    incomplete_ids,      \* local list of parse_round_results
    nread,               \* records read so far in this run
    cur_rec,             \* the record parsed last from the open file
    segments_by_id,      \* the text segments parsed for each id, in order
    example_outputs,     \* the value returned
    returned             \* "no", "empty" (return {}) or "outputs"

batch_vars == <<pc, client, planned, round_idx, remaining_ids, requests,
                prev_requested, calls, reused, status, combined_text_by_id,
                example_state_by_id, incomplete_ids, nread, cur_rec,
                segments_by_id, example_outputs, returned>>

\* one call of extract_block
VARIABLES
    extract_pc,          \* "off", "call" or "returned"
    full_text,           \* the argument
    block                \* the value returned

extract_vars == <<extract_pc, full_text, block>>

\* the patcher (latex_fix_and_patch.py)
VARIABLES
    patch_pc,            \* "off", "fix" (the loop of main) or "done"
    all_lines,           \* the lines of the .tex file on disk
    final_newline,       \* the last line of the file ends with a newline
    loaded_regions,      \* load_regions(): the regions, all of this file
    fixes,               \* the texts returned by call_model, as lines
    all_patches,
    git_rc,              \* "none", "applied" or "failed"
    orig_lines           \* the lines of the file when the run began

patch_vars == <<patch_pc, all_lines, final_newline, loaded_regions, fixes,
                all_patches, git_rc, orig_lines>>

\* the locator (latex_scan_regions.py)
VARIABLES
    scan_pc,             \* "off", "parse", "collect" or "done"
    log_text,            \* the lines of the LaTeX log
    radius,
    disk,                \* the files the run has looked for, as found
    base_errors,         \* parse_errors(log_text)
    attributed,          \* guess_file of the errors handled so far
    seen,
    regions

scan_vars == <<scan_pc, log_text, radius, disk, base_errors, attributed, seen,
               regions>>

\* one call of slugify
VARIABLES
    slug_pc,             \* "off", "call" or "returned"
    slug_text,           \* the argument, a sequence of characters
    slug                 \* the value returned

slug_vars == <<slug_pc, slug_text, slug>>

\* no call of slugify is being followed
SlugOff ==
    /\ slug_pc = "off"
    /\ slug_text = <<>>
    /\ slug = <<>>

\* one or more runs of main() of init_methods_book.py on one project
\* directory: the scaffolding generators, then generate_themes_with_openai
VARIABLES
    book_pc,             \* "off", "scaffold", "themes", "stubs", "plan",
                         \* "batch", "assemble", "done" or "raised"
    files,               \* the files of the project directory: path -> content
    use_openai,          \* --with-openai
    api_key,             \* get_openai_client() returns a client
    book_idx,            \* the turn of the loop in progress
    plans_by_section,
    plan_calls,          \* client.responses.create calls of this run, by section
    outputs_by_key,      \* the example_outputs returned by run_example_batch
    run_no,              \* the run in progress (1, 2, ..)
    edits,               \* edits of files made by the user between runs
    files_at_start,      \* (not in the program) files when this run began
    saved_plans          \* (not in the program) path -> the plan an earlier
                         \* run saved there, while the user left the file alone

book_vars == <<book_pc, files, use_openai, api_key, book_idx, plans_by_section,
               plan_calls, outputs_by_key, run_no, edits, files_at_start,
               saved_plans>>

\* main() is not running
BookOff ==
    /\ book_pc = "off"
    /\ files = <<>>
    /\ use_openai = FALSE
    /\ api_key = FALSE
    /\ book_idx = 0
    /\ plans_by_section = <<>>
    /\ plan_calls = <<>>
    /\ outputs_by_key = <<>>
    /\ run_no = 0
    /\ edits = 0
    /\ files_at_start = <<>>
    /\ saved_plans = <<>>

\* one request prompt built by run_example_batch
VARIABLES
    prompt_pc,           \* "off", "build" or "built"
    prompt_args,         \* round_idx and combined_text_by_id.get(custom_id)
    prompt               \* the prompt of the request

prompt_vars == <<prompt_pc, prompt_args, prompt>>

\* no prompt is being followed
PromptOff ==
    /\ prompt_pc = "off"
    /\ prompt_args = <<>>
    /\ prompt = <<>>

tool_vars == <<extract_vars, patch_vars, scan_vars,
              slug_vars, book_vars, prompt_vars>>

vars == <<batch_vars, tool_vars>>

\* no call of extract_block is being followed
ExtractOff ==
    /\ extract_pc = "off"
    /\ full_text = <<>>
    /\ block = <<>>

\* the patcher is not running
PatchOff ==
    /\ patch_pc = "off"
    /\ all_lines = <<>>
    /\ final_newline = TRUE
    /\ loaded_regions = <<>>
    /\ fixes = <<>>
    /\ all_patches = <<>>
    /\ git_rc = "none"
    /\ orig_lines = <<>>

\* the locator is not running
ScanOff ==
    /\ scan_pc = "off"
    /\ log_text = <<>>
    /\ radius = DefaultRadius
    /\ disk = <<>>
    /\ base_errors = <<>>
    /\ attributed = <<>>
    /\ seen = {}
    /\ regions = <<>>

NoCalls == [upload |-> 0, create |-> 0, retrieve |-> 0, content |-> 0]

Init ==
    /\ pc = "start"
    /\ client \in BOOLEAN
    /\ planned \in Plans
    /\ round_idx = 0
    /\ remaining_ids = <<>>
    /\ requests = <<>>
    /\ prev_requested = {}
    /\ calls = NoCalls
    /\ reused = FALSE
    /\ status = None
    /\ combined_text_by_id = <<>>
    /\ example_state_by_id = <<>>
    /\ incomplete_ids = <<>>
    /\ nread = 0
    /\ cur_rec = NoRecord
    /\ segments_by_id = <<>>
    /\ example_outputs = <<>>
    /\ returned = "no"
    /\ ExtractOff
    /\ PatchOff
    /\ ScanOff
    /\ SlugOff
    /\ BookOff
    /\ PromptOff

\* dict[key] = value
Put(d, k, v) == [x \in (DOMAIN d) \cup {k} |-> IF x = k THEN v ELSE d[x]]

\* dict.get(key, default)
Get(d, k, default) == IF k \in DOMAIN d THEN d[k] ELSE default

SeqToSet(s) == {s[i] : i \in 1..Len(s)}

\* ------------------------------------------------------------------------
\* parse_round_results, one record
\* ------------------------------------------------------------------------
NoResponseState_AsMarkersMissing ==
    [completed |-> FALSE, incomplete_reason |-> "markers_missing", status_code |-> "200"]

NoResponseState ==
    [completed |-> FALSE, incomplete_reason |-> "no_response", status_code |-> None]

CombineText_Overwrites(prev, segment) == Strip(segment)

\* prev + "\n" + segment (or the segment alone), stripped
CombineText(prev, segment) ==
    Strip(IF prev # <<>> THEN prev \o <<NL>> \o segment ELSE segment)

ClassifyState(combined, status_code, incomplete_details) ==
    IF HasAllMarkers(combined)
    THEN [completed |-> TRUE, incomplete_reason |-> None, status_code |-> status_code]
    ELSE [completed |-> FALSE,
          incomplete_reason |-> IF incomplete_details # None THEN incomplete_details
                                ELSE "markers_missing",
          status_code |-> status_code]

\* whether the record's id is appended to incomplete_ids
AppendsIncomplete(rec, combined) ==
    IF rec.has_response THEN ~HasAllMarkers(combined) ELSE TRUE

ParseRecord(rec) ==
    /\ pc = "parse"
    /\ nread < MaxRecords
    /\ nread' = nread + 1
    /\ cur_rec' = rec
    /\ IF rec.custom_id = None
       THEN UNCHANGED <<combined_text_by_id, example_state_by_id, incomplete_ids,
                        segments_by_id>>
       ELSE IF ~rec.has_response
       THEN /\ example_state_by_id' = Put(example_state_by_id, rec.custom_id, NoResponseState)
            /\ incomplete_ids' = Append(incomplete_ids, rec.custom_id)
            /\ UNCHANGED <<combined_text_by_id, segments_by_id>>
       ELSE LET segment == extract_output_text_from_response_obj(rec.output)
                prev == Get(combined_text_by_id, rec.custom_id, <<>>)
                combined == CombineText(prev, segment)
            IN  /\ combined_text_by_id' = Put(combined_text_by_id, rec.custom_id, combined)
                /\ segments_by_id' =
                      Put(segments_by_id, rec.custom_id,
                          Append(Get(segments_by_id, rec.custom_id, <<>>), segment))
                /\ example_state_by_id' =
                      Put(example_state_by_id, rec.custom_id,
                          ClassifyState(combined, rec.status_code, rec.incomplete_details))
                /\ incomplete_ids' =
                      IF AppendsIncomplete(rec, combined)
                      THEN Append(incomplete_ids, rec.custom_id)
                      ELSE incomplete_ids
    /\ UNCHANGED <<pc, client, planned, round_idx, remaining_ids, requests,
                   prev_requested, calls, reused, status, example_outputs, returned>>
    /\ UNCHANGED tool_vars

\* json.loads raises on a line that is not JSON
ParseMalformed ==
    /\ pc = "parse"
    /\ nread < MaxRecords
    /\ pc' = "raised"
    /\ UNCHANGED <<client, planned, round_idx, remaining_ids, requests,
                   prev_requested, calls, reused, status, combined_text_by_id,
                   example_state_by_id, incomplete_ids, nread, cur_rec, segments_by_id,
                   example_outputs, returned>>
    /\ UNCHANGED tool_vars

\* end of file: return incomplete_ids
ParseEnd ==
    /\ pc = "parse"
    /\ remaining_ids' = incomplete_ids
    /\ incomplete_ids' = <<>>
    /\ cur_rec' = NoRecord
    /\ pc' = "loop"
    /\ UNCHANGED <<nread, segments_by_id>>
    /\ UNCHANGED <<client, planned, round_idx, requests, prev_requested,
                   calls, reused, status, combined_text_by_id, example_state_by_id,
                   example_outputs, returned>>
    /\ UNCHANGED tool_vars

\* ------------------------------------------------------------------------
\* run_example_batch
\* ------------------------------------------------------------------------
Start ==
    /\ pc = "start"
    /\ IF planned = <<>>
       THEN /\ returned' = "empty"
            /\ pc' = "done"
            /\ UNCHANGED remaining_ids
       ELSE /\ remaining_ids' = planned
            /\ pc' = "loop"
            /\ UNCHANGED returned
    /\ UNCHANGED <<client, planned, round_idx, requests, prev_requested,
                   calls, reused, status, combined_text_by_id, example_state_by_id,
                   incomplete_ids, nread, cur_rec, segments_by_id, example_outputs>>
    /\ UNCHANGED tool_vars

LoopEnds_WithoutBreak == round_idx = MAX_ROUNDS

\* the loop ends: the round budget is used up, or nothing remains (break)
LoopEnds == round_idx = MAX_ROUNDS \/ remaining_ids = <<>>

LoopExit ==
    /\ pc = "loop"
    /\ LoopEnds
    /\ pc' = "finalize"
    /\ UNCHANGED <<client, planned, round_idx, remaining_ids, requests,
                   prev_requested, calls, reused, status, combined_text_by_id,
                   example_state_by_id, incomplete_ids, nread, cur_rec, segments_by_id,
                   example_outputs, returned>>
    /\ UNCHANGED tool_vars

\* the prompt of one request
BuildPrompt(r, custom_id) ==
    LET existing_text == Strip(Get(combined_text_by_id, custom_id, <<>>))
    IN  IF r = 1 \/ existing_text = <<>>
        THEN [kind |-> "full", existing_text |-> <<>>]
        ELSE [kind |-> "continuation", existing_text |-> existing_text]

BuildRequests(r, ids) ==
    [i \in 1..Len(ids) |-> [custom_id |-> ids[i], prompt |-> BuildPrompt(r, ids[i])]]

\* spec_by_custom_id[custom_id] raises KeyError for an id that is not planned
RoundBuild ==
    /\ pc = "loop"
    /\ ~LoopEnds
    /\ round_idx' = round_idx + 1
    /\ prev_requested' = {requests[i].custom_id : i \in 1..Len(requests)}
    /\ calls' = NoCalls
    /\ reused' = FALSE
    /\ status' = None
    /\ IF \E i \in 1..Len(remaining_ids) : remaining_ids[i] \notin SeqToSet(planned)
       THEN /\ pc' = "raised"
            /\ requests' = <<>>
       ELSE /\ pc' = "submit"
            /\ requests' = BuildRequests(round_idx + 1, remaining_ids)
    /\ UNCHANGED <<client, planned, remaining_ids, combined_text_by_id,
                   example_state_by_id, incomplete_ids, nread, cur_rec, segments_by_id,
                   example_outputs, returned>>
    /\ UNCHANGED tool_vars

SubmitChoice_FileNotChecked(results_exist, has_client) ==
    IF ~has_client THEN (IF results_exist THEN "reuse" ELSE "break")
    ELSE "submit"

\* what the round does once its requests file is written
SubmitChoice(results_exist, has_client) ==
    IF results_exist THEN "reuse"
    ELSE IF ~has_client THEN "break"
    ELSE "submit"

\* results_exist: whether the round's results file is found on disk
RoundSubmit(results_exist) ==
    /\ pc = "submit"
    /\ LET choice == SubmitChoice(results_exist, client)
       IN  /\ pc' = CASE choice = "reuse" -> "parse"
                      [] choice = "break" -> "finalize"
                      [] OTHER -> "poll"
           /\ reused' = results_exist
           /\ calls' = IF choice = "submit"
                       THEN [calls EXCEPT !.upload = @ + 1, !.create = @ + 1]
                       ELSE calls
    /\ UNCHANGED <<client, planned, round_idx, remaining_ids, requests,
                   prev_requested, status, combined_text_by_id,
                   example_state_by_id, incomplete_ids, nread, cur_rec, segments_by_id,
                   example_outputs, returned>>
    /\ UNCHANGED tool_vars

Fatal == {"failed", "cancelled", "expired"}
Statuses == {"in_progress", "completed"} \cup Fatal

PollOutcome_ExpiredNotFatal(job_status) ==
    IF job_status = "completed" THEN "download"
    ELSE IF job_status \in {"failed", "cancelled"} THEN "abort"
    ELSE "sleep"

PollOutcome_FailedDownloads(job_status) ==
    IF job_status \in {"completed", "failed"} THEN "download"
    ELSE IF job_status \in Fatal THEN "abort"
    ELSE "sleep"

\* what the poll loop does with a status
PollOutcome(job_status) ==
    IF job_status = "completed" THEN "download"
    ELSE IF job_status \in Fatal THEN "abort"
    ELSE "sleep"

Poll(job_status) ==
    /\ pc = "poll"
    /\ PollOutcome(job_status) = "sleep" => calls.retrieve < MaxPolls
    /\ calls' = [calls EXCEPT !.retrieve = @ + 1]
    /\ status' = job_status
    /\ pc' = CASE PollOutcome(job_status) = "download" -> "download"
               [] PollOutcome(job_status) = "abort" -> "done"
               [] OTHER -> "poll"
    /\ returned' = IF PollOutcome(job_status) = "abort" THEN "empty" ELSE returned
    /\ UNCHANGED <<client, planned, round_idx, remaining_ids, requests,
                   prev_requested, reused, combined_text_by_id,
                   example_state_by_id, incomplete_ids, nread, cur_rec, segments_by_id,
                   example_outputs>>
    /\ UNCHANGED tool_vars

\* a completed job without output_file_id ends the run with {}
Download(has_output_file) ==
    /\ pc = "download"
    /\ IF has_output_file
       THEN /\ calls' = [calls EXCEPT !.content = @ + 1]
            /\ pc' = "parse"
            /\ UNCHANGED returned
       ELSE /\ returned' = "empty"
            /\ pc' = "done"
            /\ UNCHANGED calls
    /\ UNCHANGED <<client, planned, round_idx, remaining_ids, requests,
                   prev_requested, reused, status, combined_text_by_id,
                   example_state_by_id, incomplete_ids, nread, cur_rec, segments_by_id,
                   example_outputs>>
    /\ UNCHANGED tool_vars

BuildOutput_NoFallback(combined) ==
    [inquiry |-> extract_block(combined, INQ_START, INQ_END),
     solution |-> extract_block(combined, SOL_START, SOL_END)]

\* the entry of example_outputs built from a non-empty combined text
BuildOutput(combined) ==
    LET inquiry_block == extract_block(combined, INQ_START, INQ_END)
        solution_block == extract_block(combined, SOL_START, SOL_END)
    IN  [inquiry |-> inquiry_block,
         solution |-> IF solution_block # <<>> THEN solution_block ELSE combined]

FinalOutputs ==
    LET with_text == {id \in SeqToSet(planned) :
                         Strip(Get(combined_text_by_id, id, <<>>)) # <<>>}
    IN  [id \in with_text |-> BuildOutput(Strip(combined_text_by_id[id]))]

Finalize ==
    /\ pc = "finalize"
    /\ example_outputs' = FinalOutputs
    /\ returned' = "outputs"
    /\ pc' = "done"
    /\ UNCHANGED <<client, planned, round_idx, remaining_ids, requests,
                   prev_requested, calls, reused, status, combined_text_by_id,
                   example_state_by_id, incomplete_ids, nread, cur_rec, segments_by_id>>
    /\ UNCHANGED tool_vars

Next ==
    \/ Start
    \/ LoopExit
    \/ RoundBuild
    \/ \E results_exist \in BOOLEAN : RoundSubmit(results_exist)
    \/ \E job_status \in Statuses : Poll(job_status)
    \/ \E has_output_file \in BOOLEAN : Download(has_output_file)
    \/ \E rec \in Records : ParseRecord(rec)
    \/ ParseMalformed
    \/ ParseEnd
    \/ Finalize

Spec == Init /\ [][Next]_vars

\* ------------------------------------------------------------------------
\* extract_block on its own: one call on an arbitrary text
\* ------------------------------------------------------------------------
\* run_example_batch is not running
BatchOff ==
    /\ pc = "off"
    /\ client = FALSE
    /\ planned = <<>>
    /\ round_idx = 0
    /\ remaining_ids = <<>>
    /\ requests = <<>>
    /\ prev_requested = {}
    /\ calls = NoCalls
    /\ reused = FALSE
    /\ status = None
    /\ combined_text_by_id = <<>>
    /\ example_state_by_id = <<>>
    /\ incomplete_ids = <<>>
    /\ nread = 0
    /\ cur_rec = NoRecord
    /\ segments_by_id = <<>>
    /\ example_outputs = <<>>
    /\ returned = "no"

\* the texts: every sequence of at most MaxTextLen tokens, a token being
\* the start marker, the end marker, ordinary text or whitespace
Tokens == {INQ_START, INQ_END, "x", NL}
Texts == UNION {[1..n -> Tokens] : n \in 0..MaxTextLen}

InitExtract ==
    /\ BatchOff
    /\ PatchOff
    /\ ScanOff
    /\ SlugOff
    /\ BookOff
    /\ PromptOff
    /\ extract_pc = "call"
    /\ full_text \in Texts
    /\ block = <<>>

ExtractBlock ==
    /\ extract_pc = "call"
    /\ block' = extract_block(full_text, INQ_START, INQ_END)
    /\ extract_pc' = "returned"
    /\ UNCHANGED full_text
    /\ UNCHANGED <<batch_vars, patch_vars, scan_vars, slug_vars, book_vars, prompt_vars>>

NextExtract == ExtractBlock

SpecExtract == InitExtract /\ [][NextExtract]_vars

\* ------------------------------------------------------------------------
\* The patcher: latex_fix_and_patch.py
\* ------------------------------------------------------------------------
Min(a, b) == IF a <= b THEN a ELSE b
Max(a, b) == IF a >= b THEN a ELSE b

\* A line of text is a pair: <<"l", k>> is line k of the original file,
\* <<"f", r>> and <<"g", r>> are lines written by the fixer for region r.
FileOfLen(n) == [k \in 1..n |-> <<"l", k>>]

\* the regions of a file of n lines: 1 <= start_line <= end_line <= n
RegionsOf(n) == {[start_line |-> a, end_line |-> b] : a \in 1..n, b \in 1..n} \cap
                {r \in [start_line : 1..n, end_line : 1..n] : r.start_line <= r.end_line}

\* the lists load_regions() may return for a file of n lines
RegionLists(n) == UNION {[1..k -> RegionsOf(n)] : k \in 0..MaxRegions}

\* what call_model may return for region number r (its text stripped of
\* newlines and split into lines): nothing, new lines, the old block with
\* its first line rewritten, the old block with a line added, the old block
Fixes(old_block, r) ==
    {<<>>, <<<<"f", r>>>>, <<<<"f", r>>, <<"g", r>>>>,
     <<<<"f", r>>>> \o Tail(old_block), old_block \o <<<<"f", r>>>>, old_block}

\* lines[start-1:end] = new_block (a Python slice assignment, start >= 1)
SliceAssign(lines, start, end, new_block) ==
    LET lo == Min(start - 1, Len(lines))
        hi == Max(lo, Min(end, Len(lines)))
    IN  SubSeq(lines, 1, lo) \o new_block \o SubSeq(lines, hi + 1, Len(lines))

\* the number of lines two files have in common at their beginning
CommonPrefix(a, b) ==
    CHOOSE p \in 0..Min(Len(a), Len(b)) :
        /\ \A i \in 1..p : a[i] = b[i]
        /\ p < Min(Len(a), Len(b)) => a[p + 1] # b[p + 1]

\* the number of lines two files have in common at their end, after the
\* first p lines
CommonSuffix(a, b, p) ==
    CHOOSE q \in 0..(Min(Len(a), Len(b)) - p) :
        /\ \A i \in 0..(q - 1) : a[Len(a) - i] = b[Len(b) - i]
        /\ q < Min(Len(a), Len(b)) - p => a[Len(a) - q] # b[Len(b) - q]

NoHunk == [has_hunk |-> FALSE, old_start |-> 0, preimage |-> <<>>,
           postimage |-> <<>>, trailing |-> 0]

\* difflib.unified_diff(a, b) of two files that differ in one run of lines:
\* one hunk, the changed lines with up to CONTEXT lines of context on each
\* side; nothing at all for equal files
unified_diff(a, b) ==
    IF a = b THEN NoHunk
    ELSE LET p == CommonPrefix(a, b)
             q == CommonSuffix(a, b, p)
             lo == Max(1, p + 1 - CONTEXT)
             hi == Min(Len(a), Len(a) - q + CONTEXT)
         IN  [has_hunk |-> TRUE,
              old_start |-> lo,
              preimage |-> SubSeq(a, lo, hi),
              postimage |-> SubSeq(b, lo, hi + Len(b) - Len(a)),
              trailing |-> hi - (Len(a) - q)]

\* the full-file patch of one region
make_patch_for_region(lines, region, fixed_lines) ==
    unified_diff(lines, SliceAssign(lines, region.start_line, region.end_line,
                                    fixed_lines))

\* git apply, one hunk: the offsets at which the preimage matches the
\* file.  A hunk that starts at line 1 must match at the beginning, a hunk
\* without trailing context must match at the end, and every line of the
\* patch ends with a newline, so the last line of a file without final
\* newline matches nothing.
MatchOffsets(lines, newline, hunk) ==
    {k \in 0..(Len(lines) - Len(hunk.preimage)) :
        /\ SubSeq(lines, k + 1, k + Len(hunk.preimage)) = hunk.preimage
        /\ hunk.old_start = 1 => k = 0
        /\ hunk.trailing = 0 => k + Len(hunk.preimage) = Len(lines)
        /\ (k + Len(hunk.preimage) = Len(lines) /\ hunk.preimage # <<>>) => newline}

Distance(a, b) == IF a >= b THEN a - b ELSE b - a

\* the matching offset nearest to the line the hunk names
NearestOffset(offsets, hunk) ==
    CHOOSE k \in offsets :
        \A other \in offsets :
            \/ Distance(k, hunk.old_start - 1) < Distance(other, hunk.old_start - 1)
            \/ /\ Distance(k, hunk.old_start - 1) = Distance(other, hunk.old_start - 1)
               /\ k <= other

ApplyHunk(lines, hunk, k) ==
    SubSeq(lines, 1, k) \o hunk.postimage
        \o SubSeq(lines, k + Len(hunk.preimage) + 1, Len(lines))

\* git apply of the combined patch: the patches of one file are applied one
\* after the other, each to the result of the one before; when one of them
\* does not apply, or none holds a hunk, git apply fails
RECURSIVE GitApply(_, _, _)
GitApply(lines, newline, patches) ==
    IF patches = <<>> THEN [ok |-> TRUE, lines |-> lines]
    ELSE LET hunk == Head(patches)
             offsets == MatchOffsets(lines, newline, hunk)
         IN  IF ~hunk.has_hunk THEN GitApply(lines, newline, Tail(patches))
             ELSE IF offsets = {} THEN [ok |-> FALSE, lines |-> lines]
             ELSE GitApply(ApplyHunk(lines, hunk, NearestOffset(offsets, hunk)),
                           newline, Tail(patches))

InitPatch ==
    /\ BatchOff
    /\ ExtractOff
    /\ ScanOff
    /\ SlugOff
    /\ BookOff
    /\ PromptOff
    /\ patch_pc = "fix"
    /\ \E n \in 1..MaxLines :
          /\ all_lines = FileOfLen(n)
          /\ loaded_regions \in RegionLists(n)
    /\ final_newline \in BOOLEAN
    /\ fixes = <<>>
    /\ all_patches = <<>>
    /\ git_rc = "none"
    /\ orig_lines = all_lines

\* main: no regions were found
NoRegions ==
    /\ patch_pc = "fix"
    /\ loaded_regions = <<>>
    /\ patch_pc' = "done"
    /\ UNCHANGED <<all_lines, final_newline, loaded_regions, fixes, all_patches,
                   git_rc, orig_lines>>
    /\ UNCHANGED <<batch_vars, extract_vars, scan_vars, slug_vars, book_vars, prompt_vars>>

\* main, one turn of the loop: call_model, make_patch_for_region
FixRegion ==
    /\ patch_pc = "fix"
    /\ Len(fixes) < Len(loaded_regions)
    /\ LET r == Len(fixes) + 1
           region == loaded_regions[r]
           old_block == SubSeq(all_lines, region.start_line, region.end_line)
       IN  \E fixed_lines \in Fixes(old_block, r) :
               /\ fixes' = Append(fixes, fixed_lines)
               /\ all_patches' =
                     Append(all_patches, make_patch_for_region(all_lines, region, fixed_lines))
    /\ UNCHANGED <<patch_pc, all_lines, final_newline, loaded_regions, git_rc,
                   orig_lines>>
    /\ UNCHANGED <<batch_vars, extract_vars, scan_vars, slug_vars, book_vars, prompt_vars>>

\* main, after the loop: write the combined patch and run git apply
ApplyPatch ==
    /\ patch_pc = "fix"
    /\ loaded_regions # <<>>
    /\ Len(fixes) = Len(loaded_regions)
    /\ LET applied == GitApply(all_lines, final_newline, all_patches)
           any_hunk == \E i \in 1..Len(all_patches) : all_patches[i].has_hunk
       IN  IF applied.ok /\ any_hunk
           THEN /\ all_lines' = applied.lines
                /\ git_rc' = "applied"
           ELSE /\ all_lines' = all_lines
                /\ git_rc' = "failed"
    /\ patch_pc' = "done"
    /\ UNCHANGED <<final_newline, loaded_regions, fixes, all_patches, orig_lines>>
    /\ UNCHANGED <<batch_vars, extract_vars, scan_vars, slug_vars, book_vars, prompt_vars>>

NextPatch ==
    \/ NoRegions
    \/ FixRegion
    \/ ApplyPatch

SpecPatch == InitPatch /\ [][NextPatch]_vars

\* ------------------------------------------------------------------------
\* The locator: latex_scan_regions.py
\* ------------------------------------------------------------------------
\* The lines of a log, by what the locator's patterns see in them: a line
\* that starts with "!" and holds a known message, a line "l.<n> <source>",
\* a line that holds a file-open marker "(./themes/<name>.tex", a line that
\* holds ")", any other line.
ErrorLine == [kind |-> "error", file |-> "", n |-> 0]
LineNo(k) == [kind |-> "lineno", file |-> "", n |-> k]
Open(f) == [kind |-> "open", file |-> f, n |-> 0]
CloseLine == [kind |-> "close", file |-> "", n |-> 0]
OtherLine == [kind |-> "other", file |-> "", n |-> 0]
Filler(k) == [i \in 1..k |-> OtherLine]

FileA == "themes/a.tex"
FileB == "themes/b.tex"

\* what a log holds before an error message: nothing, a file opened, a
\* file opened after the one before was closed, a file opened more than
\* LookBack lines above
Contexts ==
    {<<>>, <<Open(FileA)>>, <<Open(FileB)>>, <<CloseLine, Open(FileB)>>,
     <<Open(FileA)>> \o Filler(LookBack)}

\* an error message: followed by its "l.<n>" line, by no such line within
\* LookAhead lines, or by a line with a file-open marker and then "l.<n>"
ErrorBlocks ==
    {<<ErrorLine, LineNo(k)>> : k \in 0..MaxErrLine}
        \cup {<<ErrorLine>> \o Filler(LookAhead), <<ErrorLine, Open(FileB), LineNo(1)>>}

LogEntries == {c \o e : c \in Contexts, e \in ErrorBlocks}

RECURSIVE Concat(_)
Concat(seqs) == IF seqs = <<>> THEN <<>> ELSE Head(seqs) \o Concat(Tail(seqs))

\* the logs: at most MaxErrors error messages, each after its context
Logs == {Concat(entries) : entries \in UNION {[1..k -> LogEntries] : k \in 0..MaxErrors}}

SetMin(S) == CHOOSE x \in S : \A y \in S : x <= y
SetMax(S) == CHOOSE x \in S : \A y \in S : x >= y

\* a search for "l.<n>" that runs to the end of the log
LineNoAfter_ToEndOfLog(lines, i) ==
    LET js == {j \in (i + 1)..Len(lines) : lines[j].kind = "lineno"}
    IN  IF js = {} THEN 0 ELSE SetMin(js)

\* the first line "l.<n>" among the LookAhead lines after line i (0: none)
LineNoAfter(lines, i) ==
    LET js == {j \in (i + 1)..Min(i + LookAhead, Len(lines)) : lines[j].kind = "lineno"}
    IN  IF js = {} THEN 0 ELSE SetMin(js)

ContextChunk_ToEndOfLog(lines, i, j) == SubSeq(lines, Max(1, i - LookBack), Len(lines))

\* lines[context_start:j+1]
ContextChunk(lines, i, j) == SubSeq(lines, Max(1, i - LookBack), j)

\* at, upto (not in the program): the places of the error's "!" line and of
\* its "l.<n>" line
RECURSIVE ParseFrom(_, _)
ParseFrom(lines, i) ==
    IF i > Len(lines) THEN <<>>
    ELSE LET j == LineNoAfter(lines, i)
         IN  IF lines[i].kind = "error" /\ j # 0
             THEN <<[line |-> lines[j].n,
                     context_chunk |-> ContextChunk(lines, i, j),
                     at |-> i,
                     upto |-> j]>> \o ParseFrom(lines, i + 1)
             ELSE ParseFrom(lines, i + 1)

parse_errors(lines) == ParseFrom(lines, 1)

\* A relative path: the file name of a marker and, when the match of the
\* pattern runs on over further lines, those lines (junk).
Path(f) == [path |-> f, junk |-> <<>>]
MainTex == Path("main.tex")

\* re.findall(...)[-1][2:], or main.tex.  "[^)]+" also matches newlines and
\* is greedy: a match starts at a marker and ends at the last ".tex" before
\* the next ")", so markers with no ")" between them make one match.
guess_file(context_chunk) ==
    LET opens == {k \in 1..Len(context_chunk) : context_chunk[k].kind = "open"}
    IN  IF opens = {} THEN MainTex
        ELSE LET last == SetMax(opens)
                 closes == {k \in 1..last : context_chunk[k].kind = "close"}
                 from == IF closes = {} THEN 1 ELSE SetMax(closes) + 1
                 first == SetMin({k \in opens : k >= from})
             IN  [path |-> context_chunk[first].file,
                  junk |-> SubSeq(context_chunk, first + 1, last)]

\* a file as found on disk: missing, or its lines
Missing == [exists |-> FALSE, lines |-> <<>>]
FileLines(f, len) == [k \in 1..len |-> <<f, k>>]
DiskEntries(f) == {Missing} \cup {[exists |-> TRUE, lines |-> FileLines(f, len)] : len \in 0..MaxFileLen}

\* what the run finds at file_rel: as found before, nothing at a path that
\* is no file name, else any file
Found(file_rel) ==
    IF file_rel.junk # <<>> THEN {Missing}
    ELSE IF file_rel.path \in DOMAIN disk THEN {disk[file_rel.path]}
    ELSE DiskEntries(file_rel.path)

MakeRegion_EndsAtErrorLine(file_rel, lines, center, rad) ==
    LET start == Max(1, center - rad)
        end == Min(Len(lines), center)
        raw_snippet == SubSeq(lines, start, end)
    IN  [file |-> file_rel.path,
         error_line |-> center,
         start_line |-> start,
         end_line |-> end,
         snippet_raw |-> raw_snippet,
         snippet_numbered |-> [k \in 1..Len(raw_snippet) |-> <<start + k - 1, raw_snippet[k]>>]]

\* the region of an error at line center of a file
MakeRegion(file_rel, lines, center, rad) ==
    LET start == Max(1, center - rad)
        end == Min(Len(lines), center + rad)
        raw_snippet == SubSeq(lines, start, end)
    IN  [file |-> file_rel.path,
         error_line |-> center,
         start_line |-> start,
         end_line |-> end,
         snippet_raw |-> raw_snippet,
         snippet_numbered |-> [k \in 1..Len(raw_snippet) |-> <<start + k - 1, raw_snippet[k]>>]]

Radii == {1, DefaultRadius}

InitScan ==
    /\ BatchOff
    /\ ExtractOff
    /\ PatchOff
    /\ SlugOff
    /\ BookOff
    /\ PromptOff
    /\ scan_pc = "parse"
    /\ log_text \in Logs
    /\ radius \in Radii
    /\ disk = <<>>
    /\ base_errors = <<>>
    /\ attributed = <<>>
    /\ seen = {}
    /\ regions = <<>>

\* collect_regions: base_errors = parse_errors(log_text)
ParseErrors ==
    /\ scan_pc = "parse"
    /\ base_errors' = parse_errors(log_text)
    /\ scan_pc' = "collect"
    /\ UNCHANGED <<log_text, radius, disk, attributed, seen, regions>>
    /\ UNCHANGED <<batch_vars, extract_vars, patch_vars, slug_vars, book_vars, prompt_vars>>

\* collect_regions without the set of seen keys
CollectRegion_NoDedupe ==
    /\ scan_pc = "collect"
    /\ Len(attributed) < Len(base_errors)
    /\ LET err == base_errors[Len(attributed) + 1]
           file_rel == guess_file(err.context_chunk)
           key == <<file_rel, err.line>>
       IN  /\ attributed' = Append(attributed, file_rel)
           /\ seen' = seen \cup {key}
           /\ \E found \in Found(file_rel) :
                 /\ disk' = IF file_rel.junk = <<>>
                            THEN Put(disk, file_rel.path, found)
                            ELSE disk
                 /\ regions' =
                       IF found.exists
                       THEN Append(regions,
                                   MakeRegion(file_rel, found.lines, err.line, radius))
                       ELSE regions
    /\ UNCHANGED <<scan_pc, log_text, radius, base_errors>>
    /\ UNCHANGED <<batch_vars, extract_vars, patch_vars, slug_vars, book_vars, prompt_vars>>

\* collect_regions that returns at the first file that does not exist
CollectRegion_StopsAtMissingFile ==
    /\ scan_pc = "collect"
    /\ Len(attributed) < Len(base_errors)
    /\ LET err == base_errors[Len(attributed) + 1]
           file_rel == guess_file(err.context_chunk)
           key == <<file_rel, err.line>>
       IN  /\ attributed' = Append(attributed, file_rel)
           /\ IF key \in seen
              THEN UNCHANGED <<seen, disk, regions, scan_pc>>
              ELSE /\ seen' = seen \cup {key}
                   /\ \E found \in Found(file_rel) :
                         /\ disk' = IF file_rel.junk = <<>>
                                    THEN Put(disk, file_rel.path, found)
                                    ELSE disk
                         /\ regions' =
                               IF found.exists
                               THEN Append(regions,
                                           MakeRegion(file_rel, found.lines, err.line, radius))
                               ELSE regions
                         /\ scan_pc' = IF found.exists THEN scan_pc ELSE "done"
    /\ UNCHANGED <<log_text, radius, base_errors>>
    /\ UNCHANGED <<batch_vars, extract_vars, patch_vars, slug_vars, book_vars, prompt_vars>>

\* collect_regions, one turn of the loop over base_errors
CollectRegion ==
    /\ scan_pc = "collect"
    /\ Len(attributed) < Len(base_errors)
    /\ LET err == base_errors[Len(attributed) + 1]
           file_rel == guess_file(err.context_chunk)
           key == <<file_rel, err.line>>
       IN  /\ attributed' = Append(attributed, file_rel)
           /\ IF key \in seen
              THEN UNCHANGED <<seen, disk, regions>>
              ELSE /\ seen' = seen \cup {key}
                   /\ \E found \in Found(file_rel) :
                         /\ disk' = IF file_rel.junk = <<>>
                                    THEN Put(disk, file_rel.path, found)
                                    ELSE disk
                         /\ regions' =
                               IF found.exists
                               THEN Append(regions,
                                           MakeRegion(file_rel, found.lines, err.line, radius))
                               ELSE regions
    /\ UNCHANGED <<scan_pc, log_text, radius, base_errors>>
    /\ UNCHANGED <<batch_vars, extract_vars, patch_vars, slug_vars, book_vars, prompt_vars>>

\* collect_regions returns; main writes the regions file
ScanDone ==
    /\ scan_pc = "collect"
    /\ Len(attributed) = Len(base_errors)
    /\ scan_pc' = "done"
    /\ UNCHANGED <<log_text, radius, disk, base_errors, attributed, seen, regions>>
    /\ UNCHANGED <<batch_vars, extract_vars, patch_vars, slug_vars, book_vars, prompt_vars>>

NextScan ==
    \/ ParseErrors
    \/ CollectRegion
    \/ ScanDone

SpecScan == InitScan /\ [][NextScan]_vars

\* ------------------------------------------------------------------------
\* slugify
\* ------------------------------------------------------------------------
\* A text is a sequence of characters.
LowerLetters == {"a", "b", "c", "e", "i", "n", "o", "s", "t"}
Digits == {"1"}
SlugChars == LowerLetters \cup Digits        \* the class [a-z0-9]
Hyphen == "-"
UpperLetters == {"A", "B"}
Punctuation == {" ", "*", ":", "(", ")"}
AllChars == SlugChars \cup UpperLetters \cup Punctuation \cup {Hyphen}
NotHyphen == AllChars \ {Hyphen}
Section == <<"s", "e", "c", "t", "i", "o", "n">>

\* str.lower(), character by character
Lower(c) == IF c = "A" THEN "a" ELSE IF c = "B" THEN "b" ELSE c

\* s without its first characters that are in (not in) the class
RECURSIVE DropWhile(_, _, _)
DropWhile(s, class, inside) ==
    IF s # <<>> /\ ((Head(s) \in class) = inside)
    THEN DropWhile(Tail(s), class, inside)
    ELSE s

\* re.sub(r"[^a-z0-9]+", "-", s) with class = [a-z0-9];
\* re.sub(r"-+", "-", s) with class = NotHyphen
RECURSIVE SubRuns(_, _)
SubRuns(s, class) ==
    IF s = <<>> THEN <<>>
    ELSE IF Head(s) \in class THEN <<Head(s)>> \o SubRuns(Tail(s), class)
    ELSE <<Hyphen>> \o SubRuns(DropWhile(s, class, FALSE), class)

RECURSIVE RStripHyphens(_)
RStripHyphens(s) ==
    IF s # <<>> /\ s[Len(s)] = Hyphen
    THEN RStripHyphens(SubSeq(s, 1, Len(s) - 1))
    ELSE s

\* str.strip("-")
StripHyphens(s) == RStripHyphens(DropWhile(s, {Hyphen}, TRUE))

slugify_NoDefault(text) ==
    LET lowered == [k \in 1..Len(text) |-> Lower(text[k])]
        s1 == SubRuns(lowered, SlugChars)
        s2 == SubRuns(s1, NotHyphen)
    IN  StripHyphens(s2)

slugify(text) ==
    LET lowered == [k \in 1..Len(text) |-> Lower(text[k])]
        s1 == SubRuns(lowered, SlugChars)
        s2 == SubRuns(s1, NotHyphen)
        stripped == StripHyphens(s2)
    IN  IF stripped = <<>> THEN Section ELSE stripped

\* the characters of the texts: a lower-case letter, an upper-case letter,
\* a digit, a hyphen, a space, a punctuation mark
Chars == {"a", "B", "1", Hyphen, " ", "*"}
SlugTexts == UNION {[1..n -> Chars] : n \in 0..MaxSlugLen}

InitSlug ==
    /\ BatchOff
    /\ ExtractOff
    /\ PatchOff
    /\ ScanOff
    /\ BookOff
    /\ PromptOff
    /\ slug_pc = "call"
    /\ slug_text \in SlugTexts
    /\ slug = <<>>

Slugify ==
    /\ slug_pc = "call"
    /\ slug' = slugify(slug_text)
    /\ slug_pc' = "returned"
    /\ UNCHANGED slug_text
    /\ UNCHANGED <<batch_vars, extract_vars, patch_vars, scan_vars, book_vars, prompt_vars>>

NextSlug == Slugify

SpecSlug == InitSlug /\ [][NextSlug]_vars

\* ------------------------------------------------------------------------
\* main(): scaffolding, section plans, chapter files
\* ------------------------------------------------------------------------
\* THEME_SPECS: two chapters, of two sections and of one section
ThemeSpecs ==
    <<[filename |-> "c1.tex", chapter_title |-> <<"A">>,
       subsections |-> << <<"a">>, <<"B", "*">> >>],
      [filename |-> "c2.tex", chapter_title |-> <<"B">>,
       subsections |-> << <<"1">> >>]>>

\* the keys (chapter_title, section_title), in the order of the loops
RECURSIVE KeysFrom(_)
KeysFrom(c) ==
    IF c > Len(ThemeSpecs) THEN <<>>
    ELSE [k \in 1..Len(ThemeSpecs[c].subsections) |->
             <<ThemeSpecs[c].chapter_title, ThemeSpecs[c].subsections[k]>>]
         \o KeysFrom(c + 1)

SectionKeys == KeysFrom(1)

\* plans_dir / f"{slug}.json"
plan_path(key) == <<"plans", slugify(key[1] \o <<Hyphen>> \o key[2])>>

\* themes_dir / spec["filename"]
chapter_path(spec) == <<"themes", <<spec.filename>>>>

\* A text that is meant to be JSON: valid or not, the value it stands for,
\* and how it is laid out (the model's answer as it came, or the layout of
\* json.dumps(data, indent=2)).
\* Plans.  A narrative is a sequence of lines, "" a blank one.  EmptyDict
\* is the JSON object {}, which "if plan:" takes for no plan.
EmptyDict == [empty |-> TRUE, narrative |-> <<>>, examples |-> <<>>]
PlanA == [empty |-> FALSE, narrative |-> <<"", "x", "", "y">>,
          examples |-> <<[title |-> <<"t1">>], [title |-> <<"t2">>]>>]
PlanB == [empty |-> FALSE, narrative |-> <<"">>, examples |-> <<>>]

Garbage == [valid |-> FALSE, value |-> EmptyDict, layout |-> "any"]
JsonText(v) == [valid |-> TRUE, value |-> v, layout |-> "any"]
json_dumps(data) == [valid |-> TRUE, value |-> data, layout |-> "indent2"]
json_loads(text) == text.value

\* the texts response_to_text(resp) may be
Responses == {JsonText(PlanA), JsonText(EmptyDict), Garbage}

Truthy(d, key) == key \in DOMAIN d /\ ~d[key].empty

\* the scaffolding generators of main(), each with the files it writes
Generators ==
    <<[symbol |-> "generate_main_tex", paths |-> << <<"", <<"main.tex">>>> >>],
      [symbol |-> "generate_mock_exam",
       paths |-> << <<"problems", <<"ex1_prob01.tex">>>>, <<"exams", <<"exam1.tex">>>> >>],
      [symbol |-> "generate_makefile", paths |-> << <<"", <<"Makefile">>>> >>],
      [symbol |-> "generate_github_actions",
       paths |-> << <<"workflows", <<"latex.yml">>>> >>]>>

\* The content of a file: who wrote it, its lines (a chapter file), the
\* JSON text it holds (a plan file).
File(kind, lines, json) == [kind |-> kind, lines |-> lines, json |-> json]
Template == File("template", <<>>, Garbage)
UserText == File("user", <<>>, Garbage)
PlanFile(text) == File("plan", <<>>, text)

write_if_missing_Overwrites(fs, path, content) == Put(fs, path, content)

write_if_missing(fs, path, content) ==
    IF path \in DOMAIN fs THEN fs ELSE Put(fs, path, content)

RECURSIVE WriteAll(_, _)
WriteAll(fs, paths) ==
    IF paths = <<>> THEN fs
    ELSE WriteAll(write_if_missing(fs, Head(paths), Template), Tail(paths))

\* A line of a chapter file.
Line(kind, text, n) == [kind |-> kind, text |-> text, n |-> n]
Blank == Line("blank", <<>>, 0)

RECURSIVE DropBlankTail(_)
DropBlankTail(ls) ==
    IF ls # <<>> /\ ls[Len(ls)] = "" THEN DropBlankTail(SubSeq(ls, 1, Len(ls) - 1)) ELSE ls

RECURSIVE DropBlankHead(_)
DropBlankHead(ls) == IF ls # <<>> /\ Head(ls) = "" THEN DropBlankHead(Tail(ls)) ELSE ls

\* narrative.strip().splitlines()
StripLines(ls) == DropBlankTail(DropBlankHead(ls))

\* the lines of the narrative of a plan
NarrativeLines(plan) ==
    LET narrative == StripLines(plan.narrative)
    IN  IF narrative = <<>> THEN <<>>
        ELSE <<Line("narrative header", <<>>, 0)>>
             \o [k \in 1..Len(narrative) |->
                    IF narrative[k] # "" THEN Line("comment", <<narrative[k]>>, 0)
                    ELSE Line("bare comment", <<>>, 0)]
             \o <<Blank>>

ExampleLines_OmitsMissing(key, idx, ex, outputs) ==
    LET okey == <<key[1], key[2], idx>>
    IN  IF okey \notin DOMAIN outputs THEN <<>>
        ELSE <<Line("solution header", outputs[okey].title, idx + 1),
               Line("text", Strip(outputs[okey].solution), 0), Blank>>

\* the lines of example idx (from 0) of a section
ExampleLines(key, idx, ex, outputs) ==
    LET okey == <<key[1], key[2], idx>>
    IN  IF okey \notin DOMAIN outputs
        THEN <<Line("todo example", ex.title, idx + 1), Blank>>
        ELSE LET ex_rec == outputs[okey]
                 inquiry_block == Strip(ex_rec.inquiry)
                 solution_block == Strip(ex_rec.solution)
             IN  (IF inquiry_block # <<>>
                  THEN <<Line("inquiry header", ex_rec.title, idx + 1),
                         Line("text", inquiry_block, 0), Blank>>
                  ELSE <<>>)
                 \o <<Line("solution header", ex_rec.title, idx + 1),
                      Line("text", solution_block, 0), Blank>>

RECURSIVE ExamplesFrom(_, _, _, _)
ExamplesFrom(key, k, examples, outputs) ==
    IF k > Len(examples) THEN <<>>
    ELSE ExampleLines(key, k - 1, examples[k], outputs)
         \o ExamplesFrom(key, k + 1, examples, outputs)

SectionLines_OnePlaceholder(key, plans, outputs) ==
    <<Line("section", key[2], 0)>>
    \o (IF Truthy(plans, key)
        THEN NarrativeLines(plans[key])
             \o (IF plans[key].examples # <<>>
                 THEN ExamplesFrom(key, 1, plans[key].examples, outputs)
                 ELSE <<Line("todo examples", <<>>, 0), Blank>>)
        ELSE <<Line("todo narrative", <<>>, 0), Blank>>)

\* the lines of a section: lines 780-825
SectionLines(key, plans, outputs) ==
    <<Line("section", key[2], 0)>>
    \o (IF Truthy(plans, key)
        THEN NarrativeLines(plans[key])
        ELSE <<Line("todo narrative", <<>>, 0), Blank>>)
    \o (IF Truthy(plans, key) /\ plans[key].examples # <<>>
        THEN ExamplesFrom(key, 1, plans[key].examples, outputs)
        ELSE <<Line("todo examples", <<>>, 0), Blank>>)

RECURSIVE SectionsFrom(_, _, _, _)
SectionsFrom(spec, k, plans, outputs) ==
    IF k > Len(spec.subsections) THEN <<>>
    ELSE SectionLines(<<spec.chapter_title, spec.subsections[k]>>, plans, outputs)
         \o SectionsFrom(spec, k + 1, plans, outputs)

\* the chapter file assembled from plans and outputs
ChapterFile(spec, plans, outputs) ==
    File("chapter",
         <<Line("chapter", spec.chapter_title, 0), Blank>>
             \o SectionsFrom(spec, 1, plans, outputs),
         Garbage)

RECURSIVE StubSections(_, _)
StubSections(spec, k) ==
    IF k > Len(spec.subsections) THEN <<>>
    ELSE <<Line("section", spec.subsections[k], 0), Line("todo stub", <<>>, 0), Blank>>
         \o StubSections(spec, k + 1)

\* the chapter file written when OpenAI is not used
StubFile(spec) ==
    File("stub", <<Line("chapter", spec.chapter_title, 0), Blank>> \o StubSections(spec, 1),
         Garbage)

WriteChapter_IfMissing(fs, path, content) == write_if_missing(fs, path, content)

\* path.write_text(...) of a chapter file
WriteChapter(fs, path, content) == Put(fs, path, content)

PlanCached_Never(fs, path) == FALSE

\* plan_path.exists()
PlanCached(fs, path) == path \in DOMAIN fs

ParsesAsJson_Always(text) == TRUE

\* json.loads(text) does not raise JSONDecodeError
ParsesAsJson(text) == text.valid

\* the keys (chapter_title, section_title, idx) of the examples of the
\* plans, in the order of spec_by_custom_id
RECURSIVE PlannedFrom(_, _)
PlannedFrom(s, plans) ==
    IF s > Len(SectionKeys) THEN <<>>
    ELSE LET key == SectionKeys[s]
         IN  (IF Truthy(plans, key)
              THEN [k \in 1..Len(plans[key].examples) |-> <<key[1], key[2], k - 1>>]
              ELSE <<>>)
             \o PlannedFrom(s + 1, plans)

custom_id_ChapterOnly(okey) == <<slugify(okey[1]), slugify(okey[1]), okey[3]>>

\* f"example::{slugify(chapter_title)}::{slugify(section_title)}::{idx}"
custom_id(okey) == <<slugify(okey[1]), slugify(okey[2]), okey[3]>>

\* the dict built by the loops over THEME_SPECS: an example whose id is
\* already a key replaces the entry of that key
spec_by_custom_id(plans) ==
    LET ids == PlannedFrom(1, plans)
        at(cid) == {i \in 1..Len(ids) : custom_id(ids[i]) = cid}
    IN  [cid \in {custom_id(ids[i]) : i \in 1..Len(ids)} |-> ids[SetMax(at(cid))]]

ExampleTitle(plans, okey) == plans[<<okey[1], okey[2]>>].examples[okey[3] + 1].title

Output(title, inquiry) == [title |-> title, inquiry |-> inquiry, solution |-> <<"x">>]

\* What run_example_batch(root, client, plans_by_section) may do: return
\* {} when the plans hold no example; else raise, return {} (a batch job
\* that failed), return an output for every example, or return an output
\* with an empty inquiry for the first example only.
BatchOutcomes(plans) ==
    LET ids == PlannedFrom(1, plans)
        metas == spec_by_custom_id(plans)
        keys == {metas[cid] : cid \in DOMAIN metas}
    IN  IF ids = <<>> THEN {[raised |-> FALSE, outputs |-> <<>>]}
        ELSE {[raised |-> TRUE, outputs |-> <<>>],
              [raised |-> FALSE, outputs |-> <<>>],
              [raised |-> FALSE,
               outputs |-> [k \in keys |-> Output(ExampleTitle(plans, k), <<"x">>)]],
              [raised |-> FALSE,
               outputs |-> [k \in {metas[custom_id(ids[1])]} |->
                               Output(ExampleTitle(plans, k), <<>>)]]}

InitBook ==
    /\ BatchOff
    /\ ExtractOff
    /\ PatchOff
    /\ ScanOff
    /\ SlugOff
    /\ PromptOff
    /\ book_pc = "scaffold"
    /\ files = <<>>
    /\ use_openai \in BOOLEAN
    /\ api_key \in BOOLEAN
    /\ book_idx = 1
    /\ plans_by_section = <<>>
    /\ plan_calls = <<>>
    /\ outputs_by_key = <<>>
    /\ run_no = 1
    /\ edits = 0
    /\ files_at_start = <<>>
    /\ saved_plans = <<>>

BookRest == <<batch_vars, extract_vars, patch_vars, scan_vars, slug_vars, prompt_vars>>

\* main(): the next of generate_main_tex, generate_mock_exam,
\* generate_makefile, generate_github_actions
Generate ==
    /\ book_pc = "scaffold"
    /\ files' = WriteAll(files, Generators[book_idx].paths)
    /\ IF book_idx < Len(Generators)
       THEN book_idx' = book_idx + 1 /\ UNCHANGED book_pc
       ELSE book_idx' = 0 /\ book_pc' = "themes"
    /\ UNCHANGED <<use_openai, api_key, plans_by_section, plan_calls, outputs_by_key,
                   run_no, edits, files_at_start, saved_plans>>
    /\ UNCHANGED BookRest

\* generate_themes_with_openai up to the call of generate_section_plans
ThemesStart ==
    /\ book_pc = "themes"
    /\ IF use_openai /\ api_key
       THEN book_pc' = "plan" /\ book_idx' = 1
       ELSE book_pc' = "stubs" /\ book_idx' = 1
    /\ UNCHANGED <<files, use_openai, api_key, plans_by_section, plan_calls,
                   outputs_by_key, run_no, edits, files_at_start, saved_plans>>
    /\ UNCHANGED BookRest

\* generate_themes_with_openai(root, use_openai=False): one chapter
WriteStub ==
    /\ book_pc = "stubs"
    /\ files' = WriteChapter(files, chapter_path(ThemeSpecs[book_idx]),
                             StubFile(ThemeSpecs[book_idx]))
    /\ IF book_idx < Len(ThemeSpecs)
       THEN book_idx' = book_idx + 1 /\ UNCHANGED book_pc
       ELSE book_idx' = 0 /\ book_pc' = "done"
    /\ UNCHANGED <<use_openai, api_key, plans_by_section, plan_calls, outputs_by_key,
                   run_no, edits, files_at_start, saved_plans>>
    /\ UNCHANGED BookRest

\* generate_section_plans, one turn of the loop; text is
\* response_to_text(resp) when a request is made
PlanSection(text) ==
    /\ book_pc = "plan"
    /\ book_idx <= Len(SectionKeys)
    /\ LET key == SectionKeys[book_idx]
           path == plan_path(key)
       IN  IF PlanCached(files, path)
           THEN /\ text = Garbage
                /\ IF ParsesAsJson(files[path].json)
                   THEN /\ plans_by_section' =
                              Put(plans_by_section, key, json_loads(files[path].json))
                        /\ book_idx' = book_idx + 1
                        /\ UNCHANGED book_pc
                   ELSE /\ book_pc' = "raised"
                        /\ UNCHANGED <<plans_by_section, book_idx>>
                /\ UNCHANGED <<files, plan_calls, saved_plans>>
           ELSE /\ plan_calls' = Put(plan_calls, key, Get(plan_calls, key, 0) + 1)
                /\ book_idx' = book_idx + 1
                /\ UNCHANGED book_pc
                /\ IF ParsesAsJson(text)
                   THEN /\ plans_by_section' = Put(plans_by_section, key, json_loads(text))
                        /\ files' = Put(files, path, PlanFile(json_dumps(json_loads(text))))
                        /\ saved_plans' = Put(saved_plans, path, json_loads(text))
                   ELSE UNCHANGED <<plans_by_section, files, saved_plans>>
    /\ UNCHANGED <<use_openai, api_key, outputs_by_key, run_no, edits, files_at_start>>
    /\ UNCHANGED BookRest

\* generate_section_plans returns; run_example_batch
RunExampleBatch ==
    /\ book_pc = "plan"
    /\ book_idx > Len(SectionKeys)
    /\ \E outcome \in BatchOutcomes(plans_by_section) :
          IF outcome.raised
          THEN /\ book_pc' = "raised"
               /\ UNCHANGED <<outputs_by_key, book_idx>>
          ELSE /\ book_pc' = "assemble"
               /\ outputs_by_key' = outcome.outputs
               /\ book_idx' = 1
    /\ UNCHANGED <<files, use_openai, api_key, plans_by_section, plan_calls, run_no,
                   edits, files_at_start, saved_plans>>
    /\ UNCHANGED BookRest

\* phase 3, one chapter
AssembleChapter ==
    /\ book_pc = "assemble"
    /\ files' = WriteChapter(files, chapter_path(ThemeSpecs[book_idx]),
                             ChapterFile(ThemeSpecs[book_idx], plans_by_section,
                                         outputs_by_key))
    /\ IF book_idx < Len(ThemeSpecs)
       THEN book_idx' = book_idx + 1 /\ UNCHANGED book_pc
       ELSE book_idx' = 0 /\ book_pc' = "done"
    /\ UNCHANGED <<use_openai, api_key, plans_by_section, plan_calls, outputs_by_key,
                   run_no, edits, files_at_start, saved_plans>>
    /\ UNCHANGED BookRest

\* what a user may put in a file between two runs
UserContents(path) ==
    IF path[1] = "plans" THEN {PlanFile(Garbage), PlanFile(JsonText(PlanB))}
    ELSE {UserText}

\* between two runs the user edits a file
UserEdit ==
    /\ book_pc \in {"done", "raised"}
    /\ edits < MaxEdits
    /\ run_no < MaxRuns
    /\ \E path \in DOMAIN files : \E content \in UserContents(path) :
          /\ files' = Put(files, path, content)
          /\ saved_plans' = [p \in (DOMAIN saved_plans) \ {path} |-> saved_plans[p]]
    /\ edits' = edits + 1
    /\ UNCHANGED <<book_pc, use_openai, api_key, book_idx, plans_by_section, plan_calls,
                   outputs_by_key, run_no, files_at_start>>
    /\ UNCHANGED BookRest

\* main() is run again on the same directory
RunAgain ==
    /\ book_pc \in {"done", "raised"}
    /\ run_no < MaxRuns
    /\ book_pc' = "scaffold"
    /\ book_idx' = 1
    /\ use_openai' \in BOOLEAN
    /\ api_key' \in BOOLEAN
    /\ plans_by_section' = <<>>
    /\ plan_calls' = <<>>
    /\ outputs_by_key' = <<>>
    /\ run_no' = run_no + 1
    /\ files_at_start' = files
    /\ UNCHANGED <<files, edits, saved_plans>>
    /\ UNCHANGED BookRest

NextBook ==
    \/ Generate
    \/ ThemesStart
    \/ WriteStub
    \/ \E text \in Responses : PlanSection(text)
    \/ RunExampleBatch
    \/ AssembleChapter
    \/ UserEdit
    \/ RunAgain

SpecBook == InitBook /\ [][NextBook]_vars

\* ------------------------------------------------------------------------
\* The prompt of one request (run_example_batch, lines 533-583)
\* ------------------------------------------------------------------------
\* A text is a sequence of lines; of a line the model keeps the number of
\* its leading spaces and whether anything but whitespace follows them.
TLine(indent, ink) == [indent |-> indent, ink |-> ink]
Indents == 0..2

\* str.strip() of a text: the whitespace-only lines at its ends and the
\* leading spaces of its first line are dropped
RECURSIVE StripText(_)
StripText(ls) ==
    IF ls = <<>> THEN <<>>
    ELSE IF ~Head(ls).ink THEN StripText(Tail(ls))
    ELSE IF ~ls[Len(ls)].ink THEN StripText(SubSeq(ls, 1, Len(ls) - 1))
    ELSE <<TLine(0, TRUE)>> \o Tail(ls)

\* combined_text_by_id.get(custom_id): no entry, or a text as
\* parse_round_results stores it (stripped)
Absent == [present |-> FALSE, lines |-> <<>>]
CombinedTexts ==
    LET any == {TLine(n, b) : n \in Indents, b \in BOOLEAN}
        raw == UNION {[1..k -> any] : k \in 0..MaxPromptLines}
    IN  {[present |-> TRUE, lines |-> ls] : ls \in {l \in raw : StripText(l) = l}}

\* textwrap.dedent: whitespace-only lines become empty, the other lines
\* lose the leading spaces they have in common
Dedent(ls) ==
    LET inked == {i \in 1..Len(ls) : ls[i].ink}
        margin == IF inked = {} THEN 0 ELSE SetMin({ls[i].indent : i \in inked})
    IN  [i \in 1..Len(ls) |->
            IF ls[i].ink THEN TLine(ls[i].indent - margin, TRUE) ELSE TLine(0, FALSE)]

\* the continuation prompt: the f-string (its lines before the existing
\* text taken as one, and those after it) with existing_text put in after
\* the indentation of its line, then dedent(...).strip()
ContinuationPrompt(existing_text) ==
    LET filled == <<TLine(TemplateIndent, TRUE),
                    TLine(TemplateIndent + Head(existing_text).indent, TRUE)>>
                      \o Tail(existing_text) \o <<TLine(TemplateIndent, TRUE)>>
    IN  StripText(Dedent(filled))

\* the prompt of the request of round r for an example
RoundPrompt(r, stored) ==
    LET existing_text == StripText(stored.lines)
    IN  IF r = 1 \/ existing_text = <<>>
        THEN [kind |-> "full", lines |-> <<>>]
        ELSE [kind |-> "continuation", lines |-> ContinuationPrompt(existing_text)]

InitPrompt ==
    /\ BatchOff
    /\ ExtractOff
    /\ PatchOff
    /\ ScanOff
    /\ SlugOff
    /\ BookOff
    /\ prompt_pc = "build"
    /\ prompt_args \in [round_idx : 1..MAX_ROUNDS, stored : {Absent} \cup CombinedTexts]
    /\ prompt = <<>>

BuildRoundPrompt ==
    /\ prompt_pc = "build"
    /\ prompt' = RoundPrompt(prompt_args.round_idx, prompt_args.stored)
    /\ prompt_pc' = "built"
    /\ UNCHANGED prompt_args
    /\ UNCHANGED <<batch_vars, extract_vars, patch_vars, scan_vars, slug_vars, book_vars>>

NextPrompt == BuildRoundPrompt

SpecPrompt == InitPrompt /\ [][NextPrompt]_vars

\* ------------------------------------------------------------------------
\* Vocabulary of the properties
\* ------------------------------------------------------------------------
IsPrefix(p, s) == Len(p) <= Len(s) /\ SubSeq(s, 1, Len(p)) = p

\* the non-empty texts of a sequence of texts, in order
NonEmpty(texts) == SelectSeq(texts, LAMBDA t : t # <<>>)

Completed(id) ==
    id \in DOMAIN example_state_by_id /\ example_state_by_id[id].completed

RequestedIds(reqs) == {reqs[i].custom_id : i \in 1..Len(reqs)}

\* the record parsed last names an example
ParsedNamed == pc = "parse" /\ cur_rec.custom_id \in AllIds

\* this step parses one more record of the open results file
ParsesRecord == pc = "parse" /\ nread' = nread + 1

\* the results of the current round have been read (reused or downloaded)
RoundParsed == reused \/ calls.content > 0

\* ------------------------------------------------------------------------
\* C1
\* ------------------------------------------------------------------------
\* C1: after a record with a response is parsed, its example is classified
\* on the CombinedText so far: with all four markers the state is
\* completed with reason None and the id is not in the list of incomplete
\* ids; otherwise the state is not completed, with the provider's
\* incomplete_details (else markers_missing) as reason, and the id is in
\* the list.  (The file may end after any record, so the list built so far
\* is the list returned.)
C1_ClassifiedOnCombinedText ==
    (ParsedNamed /\ cur_rec.has_response) =>
        LET id == cur_rec.custom_id
            text == combined_text_by_id[id]
            st == example_state_by_id[id]
        IN  IF HasAllMarkers(text)
            THEN /\ st.completed
                 /\ st.incomplete_reason = None
                 /\ id \notin SeqToSet(incomplete_ids)
            ELSE /\ ~st.completed
                 /\ st.incomplete_reason # None
                 /\ st.incomplete_reason =
                       (IF cur_rec.incomplete_details # None
                        THEN cur_rec.incomplete_details ELSE "markers_missing")
                 /\ id \in SeqToSet(incomplete_ids)

\* ------------------------------------------------------------------------
\* C2
\* ------------------------------------------------------------------------
\* C2: completed is terminal: no step of a run takes an example whose state
\* is completed to a state that is not completed.
C2_CompletedIsTerminal ==
    [][\A id \in AllIds : Completed(id) => Completed(id)']_vars

\* ------------------------------------------------------------------------
\* C3
\* ------------------------------------------------------------------------
\* C3: an example requested in round r < MAX_ROUNDS and not completed once
\* the results of round r are parsed is requested in round r + 1: the
\* requests of a round >= 2 name every example of the previous round that is
\* not completed, and the loop is not left before the last round while an
\* example of the round just parsed is not completed.
C3_IncompleteRequestedAgain ==
    /\ (pc = "submit" /\ round_idx >= 2) =>
          \A id \in prev_requested :
              ~Completed(id) => id \in RequestedIds(requests)
    /\ (pc = "finalize" /\ round_idx < MAX_ROUNDS /\ RoundParsed) =>
          \A id \in RequestedIds(requests) : Completed(id)

\* ------------------------------------------------------------------------
\* C4
\* ------------------------------------------------------------------------
\* C4: in a round >= 2 no request is built for an example whose state is
\* completed.
C4_CompletedNeverResubmitted ==
    (pc = "submit" /\ round_idx >= 2) =>
        \A id \in RequestedIds(requests) : ~Completed(id)

\* ------------------------------------------------------------------------
\* C5
\* ------------------------------------------------------------------------
\* the parse step of a record with a response appends to the text of its id
\* and leaves the text of every other id alone
AppendStep(new_text(_, _)) ==
    (ParsesRecord /\ cur_rec'.custom_id \in AllIds /\ cur_rec'.has_response) =>
        LET id == cur_rec'.custom_id
            prev == Get(combined_text_by_id, id, <<>>)
            segment == extract_output_text_from_response_obj(cur_rec'.output)
        IN  /\ IsPrefix(prev, combined_text_by_id'[id])
            /\ combined_text_by_id'[id] = new_text(prev, segment)
            /\ \A other \in (DOMAIN combined_text_by_id) \ {id} :
                  combined_text_by_id'[other] = combined_text_by_id[other]

PrevNewlineSegment(prev, segment) ==
    IF prev = <<>> THEN segment ELSE prev \o <<NL>> \o segment

PrevNewlineNonEmptySegment(prev, segment) ==
    IF prev = <<>> THEN segment
    ELSE IF segment = <<>> THEN prev
    ELSE prev \o <<NL>> \o segment

\* C5 as stated: each parsed record with a response turns the CombinedText
\* of its example into the previous text, a newline and the new segment
\* (the segment alone when there was no previous text), the previous text
\* being a prefix of the new one, so that every CombinedText is the
\* segments parsed for its id, in order, joined by newlines.
C5_AppendsNewlineAndSegment ==
    [][/\ AppendStep(PrevNewlineSegment)
       /\ DOMAIN combined_text_by_id' = DOMAIN segments_by_id'
       /\ \A id \in DOMAIN combined_text_by_id' :
             combined_text_by_id'[id] = JoinNL(segments_by_id'[id])]_vars

\* C5 as amended: the previous text is a prefix of the new one; the new one
\* is the previous text, a newline and the segment when the segment is not
\* empty, and the previous text itself when the segment is empty (the
\* segment alone when there was no previous text), so that every
\* CombinedText is the non-empty segments parsed for its id, in order,
\* joined by newlines; no other step changes a CombinedText.
C5_AppendOnly ==
    [][/\ AppendStep(PrevNewlineNonEmptySegment)
       /\ ~(ParsesRecord /\ cur_rec'.custom_id \in AllIds /\ cur_rec'.has_response) =>
             combined_text_by_id' = combined_text_by_id
       /\ DOMAIN combined_text_by_id' = DOMAIN segments_by_id'
       /\ \A id \in DOMAIN combined_text_by_id' :
             combined_text_by_id'[id] = JoinNL(NonEmpty(segments_by_id'[id]))]_vars

\* a continuation was appended in a second round, after a newline
C5_Witness ==
    /\ ParsedNamed
    /\ cur_rec.has_response
    /\ round_idx = 2
    /\ combined_text_by_id[cur_rec.custom_id] =
          <<INQ_START, "x", INQ_END, NL, SOL_START, "x", NL, "x", SOL_END>>

C7_NoResponseRecord ==
    [][/\ (ParsesRecord /\ cur_rec'.custom_id \in AllIds /\ ~cur_rec'.has_response) =>
            LET id == cur_rec'.custom_id
            IN  /\ id \in DOMAIN example_state_by_id'
                /\ example_state_by_id'[id].completed = FALSE
                /\ example_state_by_id'[id].status_code = None
                /\ example_state_by_id'[id].incomplete_reason = "no_response"
                /\ id \in SeqToSet(incomplete_ids')
                /\ combined_text_by_id' = combined_text_by_id
       /\ (pc = "parse" /\ pc' = "parse") => IsPrefix(incomplete_ids, incomplete_ids')
       /\ (pc = "parse" /\ pc' = "loop") => remaining_ids' = incomplete_ids]_vars

\* a record without response for an example that has text from round 1
C7_Witness ==
    /\ ParsedNamed
    /\ ~cur_rec.has_response
    /\ round_idx = 2
    /\ cur_rec.custom_id \in DOMAIN combined_text_by_id
    /\ combined_text_by_id[cur_rec.custom_id] # <<>>
    /\ example_state_by_id[cur_rec.custom_id] = NoResponseState

\* ------------------------------------------------------------------------
\* C8
\* ------------------------------------------------------------------------
\* C8: once a poll answers failed, cancelled or expired the run is over and
\* its result is empty, whatever the earlier rounds accumulated.
C8_FatalStatusAbortsRun ==
    status \in Fatal =>
        /\ pc = "done"
        /\ returned = "empty"
        /\ example_outputs = <<>>

\* the job of the second round failed after round 1 had collected text
C8_Witness ==
    /\ status \in Fatal
    /\ round_idx = 2
    /\ returned = "empty"
    /\ \E id \in SeqToSet(planned) :
          id \in DOMAIN combined_text_by_id /\ combined_text_by_id[id] # <<>>

\* ------------------------------------------------------------------------
\* C9
\* ------------------------------------------------------------------------
\* C9: when the job of a round >= 2 ends failed, cancelled or expired, the
\* examples completed in the earlier rounds (completed, and no part of the
\* failed round) are returned with their extracted inquiry and solution.
C9_EarlierRoundsReturned ==
    (pc = "done" /\ status \in Fatal /\ round_idx >= 2) =>
        \A id \in SeqToSet(planned) :
            (Completed(id) /\ id \notin RequestedIds(requests)) =>
                /\ id \in DOMAIN example_outputs
                /\ example_outputs[id] = BuildOutput(combined_text_by_id[id])

\* ------------------------------------------------------------------------
\* C10
\* ------------------------------------------------------------------------
\* C10: a round that finds its results file on disk makes no upload,
\* batch-creation, polling or download call and goes on to parse the file,
\* with or without a client.
C10_ReusedRoundMakesNoCall ==
    reused =>
        /\ calls = NoCalls
        /\ status = None
        /\ pc \in {"parse", "loop", "finalize", "done", "raised"}

\* a reused round is being parsed although there is no client
C10_Witness ==
    /\ reused
    /\ ~client
    /\ ParsedNamed
    /\ round_idx = 2

\* ------------------------------------------------------------------------
\* C11
\* ------------------------------------------------------------------------
\* the run returned the outputs it built
ReturnedOutputs == pc = "done" /\ returned = "outputs"

\* C11: after the round budget is used up, every planned example that is
\* still incomplete (requested in the last round, whose results were
\* parsed, and not completed) has an entry in the returned outputs.
C11_IncompleteFinalizedAnyway ==
    (ReturnedOutputs /\ round_idx = MAX_ROUNDS /\ RoundParsed) =>
        \A id \in SeqToSet(planned) :
            (id \in RequestedIds(requests) /\ ~Completed(id)) =>
                id \in DOMAIN example_outputs

\* ------------------------------------------------------------------------
\* C12
\* ------------------------------------------------------------------------
\* both inquiry markers and SOLUTION START, but no SOLUTION END
MissingSolutionEnd(text) ==
    /\ Contains(text, INQ_START)
    /\ Contains(text, INQ_END)
    /\ Contains(text, SOL_START)
    /\ ~Contains(text, SOL_END)

\* got is the stripped text between an occurrence of marker a and a later
\* occurrence of marker b
IsBetween(got, text, a, b) ==
    \E i, j \in 1..Len(text) :
        /\ i < j
        /\ text[i] = a
        /\ text[j] = b
        /\ got = Strip(SubSeq(text, i + 1, j - 1))

\* C12: an example whose text has both inquiry markers and SOLUTION START
\* but no SOLUTION END is not completed; the record that leaves its text in
\* that condition lists it as incomplete; finalized in that condition, its
\* output solution is the full CombinedText and its output inquiry is the
\* text between the inquiry markers.
C12_MissingSolutionEndFallsBack ==
    /\ \A id \in DOMAIN combined_text_by_id :
          MissingSolutionEnd(combined_text_by_id[id]) => ~Completed(id)
    /\ (ParsedNamed /\ cur_rec.has_response
          /\ MissingSolutionEnd(combined_text_by_id[cur_rec.custom_id])) =>
          cur_rec.custom_id \in SeqToSet(incomplete_ids)
    /\ ReturnedOutputs =>
          \A id \in SeqToSet(planned) \cap DOMAIN combined_text_by_id :
              MissingSolutionEnd(combined_text_by_id[id]) =>
                  /\ id \in DOMAIN example_outputs
                  /\ example_outputs[id].solution = combined_text_by_id[id]
                  /\ IsBetween(example_outputs[id].inquiry, combined_text_by_id[id],
                               INQ_START, INQ_END)
                  /\ \A m \in Markers : ~Contains(example_outputs[id].inquiry, m)

\* an example cut off before SOLUTION END in every round is finalized
C12_Witness ==
    /\ ReturnedOutputs
    /\ round_idx = MAX_ROUNDS
    /\ FirstId \in DOMAIN example_outputs
    /\ MissingSolutionEnd(combined_text_by_id[FirstId])
    /\ ~Completed(FirstId)
    /\ example_outputs[FirstId].inquiry = <<"x">>
    /\ example_outputs[FirstId].solution = combined_text_by_id[FirstId]

\* ------------------------------------------------------------------------
\* C13
\* ------------------------------------------------------------------------
\* the end marker occurs after the first start marker
HasBlock(text, a, b) ==
    \E i, j \in 1..Len(text) :
        /\ i < j
        /\ text[i] = a
        /\ \A k \in 1..(i - 1) : text[k] # a
        /\ text[j] = b

\* C13: the output solution is the entire CombinedText only when the text
\* holds no solution marker at all, and when both solution markers are
\* present (also with an empty body between them) the output solution is
\* the text between them.
C13_FallbackOnlyWithoutSolutionMarkers ==
    ReturnedOutputs =>
        \A id \in DOMAIN example_outputs :
            LET text == combined_text_by_id[id]
                out == example_outputs[id]
            IN  /\ out.solution = text =>
                      ~Contains(text, SOL_START) /\ ~Contains(text, SOL_END)
                /\ HasBlock(text, SOL_START, SOL_END) =>
                      IsBetween(out.solution, text, SOL_START, SOL_END)

\* ------------------------------------------------------------------------
\* C14
\* ------------------------------------------------------------------------
\* C14: for every example whose final state is completed, neither the
\* inquiry nor the solution returned contains any of the four markers.
C14_CompletedOutputsHoldNoMarker ==
    ReturnedOutputs =>
        \A id \in DOMAIN example_outputs :
            Completed(id) =>
                \A m \in Markers :
                    /\ ~Contains(example_outputs[id].inquiry, m)
                    /\ ~Contains(example_outputs[id].solution, m)

\* ------------------------------------------------------------------------
\* C15
\* ------------------------------------------------------------------------
\* C15: on a text that contains both markers extract_block returns the
\* content between them and the result contains neither marker; on a text
\* missing either marker the result is empty.
C15_ExtractBlockInterior ==
    extract_pc = "returned" =>
        IF Contains(full_text, INQ_START) /\ Contains(full_text, INQ_END)
        THEN /\ IsBetween(block, full_text, INQ_START, INQ_END)
             /\ ~Contains(block, INQ_START)
             /\ ~Contains(block, INQ_END)
        ELSE block = <<>>

\* ------------------------------------------------------------------------
\* C16
\* ------------------------------------------------------------------------
\* C16: after a run that patches one region, the file is the original
\* lines before start_line, then the lines of the fix, then the original
\* lines after end_line, whatever the number of lines of the fix.
C16_PatchReplacesExactlyTheRange ==
    (patch_pc = "done" /\ Len(loaded_regions) = 1) =>
        LET region == loaded_regions[1]
        IN  all_lines =
                SubSeq(orig_lines, 1, region.start_line - 1) \o fixes[1]
                    \o SubSeq(orig_lines, region.end_line + 1, Len(orig_lines))

\* ------------------------------------------------------------------------
\* C17
\* ------------------------------------------------------------------------
\* the line ranges of the loaded regions are pairwise disjoint
DisjointRegions ==
    \A r1, r2 \in 1..Len(loaded_regions) :
        r1 < r2 =>
            \/ loaded_regions[r1].end_line < loaded_regions[r2].start_line
            \/ loaded_regions[r2].end_line < loaded_regions[r1].start_line

\* C17: after a run that fixes several regions of one file, every line of
\* every fix is in the file.  (Stated for the least demanding case: line
\* ranges that do not overlap, adjacent ones included, in a file that ends
\* with a newline.)
C17_NoFixIsLost ==
    (patch_pc = "done" /\ final_newline /\ Len(loaded_regions) >= 2
        /\ DisjointRegions) =>
        \A r \in 1..Len(fixes) :
            \A i \in 1..Len(fixes[r]) : fixes[r][i] \in SeqToSet(all_lines)

\* ------------------------------------------------------------------------
\* C18
\* ------------------------------------------------------------------------
\* the file-open markers of the log up to the "l.<n>" line of error k
MarkersBefore(k) ==
    {m \in 1..base_errors[k].upto : log_text[m].kind = "open"}

\* C18: every region (of an error line number >= 1) has
\* start_line <= error_line <= end_line, and its snippet is lines
\* start_line..end_line of its file.
C18_RegionInvariant ==
    \A r \in 1..Len(regions) :
        LET region == regions[r]
            lines == disk[region.file].lines
        IN  region.error_line >= 1 =>
            /\ region.start_line <= region.error_line
            /\ region.error_line <= region.end_line
            /\ Len(region.snippet_raw) = region.end_line - region.start_line + 1
            /\ \A i \in region.start_line..region.end_line :
                  /\ i \in 1..Len(lines)
                  /\ region.snippet_raw[i - region.start_line + 1] = lines[i]

\* ------------------------------------------------------------------------
\* C19
\* ------------------------------------------------------------------------
\* C19: an error with file-open markers before it in the log (all of
\* them above its "!" line) is attributed to the file named by the last of
\* them.
C19_NearestMarkerWins ==
    \A k \in 1..Len(attributed) :
        (MarkersBefore(k) # {} /\ SetMax(MarkersBefore(k)) < base_errors[k].at) =>
            attributed[k] = Path(log_text[SetMax(MarkersBefore(k))].file)

TestRegion == MakeRegion(MainTex, FileLines(MainTex.path, 30), 20, 3)

\* C21: a region of a file of n lines for an error at line e, with radius
\* c, has start_line = max(1, e - c) and end_line = min(n, e + c); when e
\* is a line of the file the snippet has end_line - start_line + 1 lines
\* and holds line e; a log with one error in a file that exists gives
\* exactly one region; for n = 30, e = 20, c = 3 the region is 17..23, its
\* snippet has 7 lines and holds line 20.
C21_RegionWindow ==
    /\ \A r \in 1..Len(regions) :
          LET region == regions[r]
              lines == disk[region.file].lines
              e == region.error_line
          IN  /\ region.start_line = Max(1, e - radius)
              /\ region.end_line = Min(Len(lines), e + radius)
              /\ e \in 1..Len(lines) =>
                    /\ Len(region.snippet_raw) = region.end_line - region.start_line + 1
                    /\ region.snippet_raw[e - region.start_line + 1] = lines[e]
    /\ (scan_pc = "done" /\ Len(base_errors) = 1 /\ attributed[1].junk = <<>>
            /\ disk[attributed[1].path].exists) => Len(regions) = 1
    /\ TestRegion.start_line = 17
    /\ TestRegion.end_line = 23
    /\ Len(TestRegion.snippet_raw) = 7
    /\ \E k \in 1..7 : TestRegion.snippet_raw[k] = <<MainTex.path, 20>>

\* one error at line 2 of a file of 3 lines, radius 1: the region is 1..3
C21_Witness ==
    /\ scan_pc = "done"
    /\ Len(base_errors) = 1
    /\ radius = 1
    /\ Len(regions) = 1
    /\ regions[1].error_line = 2
    /\ regions[1].start_line = 1
    /\ regions[1].end_line = 3
    /\ Len(regions[1].snippet_raw) = 3

\* ------------------------------------------------------------------------
\* C28
\* ------------------------------------------------------------------------
\* the maximal runs of characters of text that are in [a-z0-9] once
\* lowered, as pairs of their first and last place
Words(text) ==
    LET in(k) == Lower(text[k]) \in SlugChars
    IN  {w \in (1..Len(text)) \X (1..Len(text)) :
            /\ w[1] <= w[2]
            /\ \A k \in w[1]..w[2] : in(k)
            /\ w[1] = 1 \/ ~in(w[1] - 1)
            /\ w[2] = Len(text) \/ ~in(w[2] + 1)}

\* the place in the slug where the word w of text begins: after the words
\* before it and one hyphen for each
WordPlace(text, w) ==
    LET before == {v \in Words(text) : v[2] < w[1]}
        RECURSIVE Total(_)
        Total(S) == IF S = {} THEN 0
                    ELSE LET v == CHOOSE v \in S : TRUE
                         IN  (v[2] - v[1] + 2) + Total(S \ {v})
    IN  Total(before) + 1

\* C28: the slug is never empty, holds only characters of [a-z0-9-], has no
\* leading, trailing or doubled hyphen; it is "section" when the text holds
\* no letter or digit, and otherwise the lowered maximal runs of letters and
\* digits of the text, in order, with one hyphen between two of them.
C28_SlugShape ==
    slug_pc = "returned" =>
        /\ slug # <<>>
        /\ \A k \in 1..Len(slug) : slug[k] \in SlugChars \cup {Hyphen}
        /\ slug[1] # Hyphen
        /\ slug[Len(slug)] # Hyphen
        /\ \A k \in 1..(Len(slug) - 1) : ~(slug[k] = Hyphen /\ slug[k + 1] = Hyphen)
        /\ Words(slug_text) = {} => slug = Section
        /\ Words(slug_text) # {} =>
              /\ \A w \in Words(slug_text) :
                    LET at == WordPlace(slug_text, w)
                    IN  /\ SubSeq(slug, at, at + w[2] - w[1])
                            = [k \in 1..(w[2] - w[1] + 1) |-> Lower(slug_text[w[1] + k - 1])]
                        /\ at > 1 => slug[at - 1] = Hyphen
              /\ Cardinality({k \in 1..Len(slug) : slug[k] = Hyphen})
                    = Cardinality(Words(slug_text)) - 1
        /\ slugify(<<"B", "a", ":", " ", "a", "b", " ", "(", "*", ")">>)
              = <<"b", "a", Hyphen, "a", "b">>
        /\ slugify(<<"*", "(", ")">>) = Section

\* a text with an upper-case letter and a run of several characters that
\* are no letters or digits between two words
C28_Witness ==
    /\ slug_pc = "returned"
    /\ slug_text = <<"B", " ", Hyphen, "a">>
    /\ slug = <<"b", Hyphen, "a">>

\* ------------------------------------------------------------------------
\* C22
\* ------------------------------------------------------------------------
\* generate_section_plans is at work (or about to return) and has dealt
\* with section s
Planned(s) == book_pc = "plan" /\ s < book_idx

\* C22: a section whose plan file existed when the run began gets the plan
\* stored in the file, no request is made for it and the file is left as
\* it was; a plan that an earlier run saved there is the plan it gets.
C22_CachedPlanIsReturned ==
    \A s \in 1..Len(SectionKeys) :
        LET key == SectionKeys[s]
            path == plan_path(key)
        IN  (Planned(s) /\ path \in DOMAIN files_at_start) =>
                /\ key \in DOMAIN plans_by_section
                /\ plans_by_section[key] = files_at_start[path].json.value
                /\ key \notin DOMAIN plan_calls
                /\ files[path] = files_at_start[path]
                /\ path \in DOMAIN saved_plans => plans_by_section[key] = saved_plans[path]

\* the second run has planned all sections: the first got the plan that
\* the first run saved, without a request, and a request was made for the
\* second
C22_Witness ==
    /\ run_no = 2
    /\ book_pc = "plan"
    /\ book_idx > Len(SectionKeys)
    /\ plan_path(SectionKeys[1]) \in DOMAIN saved_plans
    /\ plan_path(SectionKeys[1]) \in DOMAIN files_at_start
    /\ files_at_start[plan_path(SectionKeys[1])].json.layout = "indent2"
    /\ plans_by_section[SectionKeys[1]] = PlanA
    /\ SectionKeys[1] \notin DOMAIN plan_calls
    /\ SectionKeys[2] \in DOMAIN plan_calls

\* ------------------------------------------------------------------------
\* C23
\* ------------------------------------------------------------------------
\* C23: when the answer to the request for a section is not valid JSON,
\* the section gets no plan and no plan file, the one request made for it
\* stays the only one, and the loop goes on with the next section; when
\* generate_section_plans returns, every section has a plan or had its one
\* request.
C23_InvalidResponseSkipsSection ==
    /\ [][\A text \in Responses :
            (/\ PlanSection(text)
             /\ ~PlanCached(files, plan_path(SectionKeys[book_idx]))
             /\ ~text.valid)
            => LET key == SectionKeys[book_idx]
               IN  /\ key \notin DOMAIN plans_by_section'
                   /\ plan_path(key) \notin DOMAIN files'
                   /\ plan_calls'[key] = 1
                   /\ book_pc' = "plan"
                   /\ book_idx' = book_idx + 1]_vars
    /\ [](\A s \in 1..Len(SectionKeys) :
            Planned(s) =>
                /\ Get(plan_calls, SectionKeys[s], 0) <= 1
                /\ SectionKeys[s] \in DOMAIN plans_by_section
                      \/ Get(plan_calls, SectionKeys[s], 0) = 1)

\* the answer for the first section was not valid JSON, and the later
\* sections were planned
C23_Witness ==
    /\ book_pc = "plan"
    /\ book_idx > Len(SectionKeys)
    /\ SectionKeys[1] \notin DOMAIN plans_by_section
    /\ plan_path(SectionKeys[1]) \notin DOMAIN files
    /\ plan_calls[SectionKeys[1]] = 1
    /\ \A s \in 2..Len(SectionKeys) :
          /\ SectionKeys[s] \in DOMAIN plans_by_section
          /\ plan_path(SectionKeys[s]) \in DOMAIN files

\* ------------------------------------------------------------------------
\* C24
\* ------------------------------------------------------------------------
\* C24: a plan (cached or freshly generated) that is not valid JSON never
\* raises past its section: the loop of generate_section_plans goes on
\* with the next section.
C24_ParsingFailureIsConfined ==
    [][(/\ book_pc = "plan"
        /\ book_idx <= Len(SectionKeys)
        /\ \/ /\ PlanCached(files, plan_path(SectionKeys[book_idx]))
              /\ ~files[plan_path(SectionKeys[book_idx])].json.valid
           \/ PlanSection(Garbage))
       => (book_pc' = "plan" /\ book_idx' = book_idx + 1)]_vars

\* ------------------------------------------------------------------------
\* C25
\* ------------------------------------------------------------------------
\* a step of the program (not an edit by the user)
ProgramStep == edits' = edits

ChapterPaths == {chapter_path(ThemeSpecs[c]) : c \in 1..Len(ThemeSpecs)}

\* C25 as stated: no step of the program changes the content of a file
\* that exists, be it a plan file, a scaffolding file or a chapter file.
C25_NothingIsOverwritten ==
    [][ProgramStep => \A p \in DOMAIN files : files'[p] = files[p]]_vars

\* C25 as amended: no step of the program changes the content of a plan
\* file or scaffolding file that exists; a chapter file is written anew by
\* every step that writes it, whatever it held.
C25_OnlyChaptersAreOverwritten ==
    [][ProgramStep =>
          /\ \A p \in (DOMAIN files) \ ChapterPaths : files'[p] = files[p]
          /\ book_pc = "stubs" =>
                files'[chapter_path(ThemeSpecs[book_idx])] = StubFile(ThemeSpecs[book_idx])
          /\ book_pc = "assemble" =>
                files'[chapter_path(ThemeSpecs[book_idx])]
                    = ChapterFile(ThemeSpecs[book_idx], plans_by_section, outputs_by_key)]_vars

\* the user edited the first chapter file after the first run, and the
\* second run has put generated content in its place; the plan files and
\* scaffolding files are as they were
C25_Witness ==
    /\ run_no = 2
    /\ book_pc = "done"
    /\ chapter_path(ThemeSpecs[1]) \in DOMAIN files_at_start
    /\ files_at_start[chapter_path(ThemeSpecs[1])] = UserText
    /\ files[chapter_path(ThemeSpecs[1])].kind = "chapter"
    /\ \E p \in DOMAIN files_at_start : p[1] = "plans"
    /\ \A p \in (DOMAIN files_at_start) \ ChapterPaths : files[p] = files_at_start[p]

\* ------------------------------------------------------------------------
\* C26
\* ------------------------------------------------------------------------
\* the lines of the section of key in a chapter file, after its heading and
\* up to the next heading, the blank lines left out
SectionBody(lines, key) ==
    LET at == CHOOSE k \in 1..Len(lines) : lines[k] = Line("section", key[2], 0)
        later == {k \in (at + 1)..Len(lines) : lines[k].kind = "section"}
        end == IF later = {} THEN Len(lines) ELSE SetMin(later) - 1
    IN  SelectSeq(SubSeq(lines, at + 1, end), LAMBDA l : l # Blank)

\* the chapters were assembled from the plans and outputs of this run
Assembled == book_pc = "done" /\ use_openai /\ api_key

\* the sections with no plan at all, each with its chapter (whose file is
\* as the assembler wrote it)
Unplanned ==
    {<<c, k>> \in (1..Len(ThemeSpecs)) \X (1..2) :
        /\ k <= Len(ThemeSpecs[c].subsections)
        /\ files[chapter_path(ThemeSpecs[c])].kind = "chapter"
        /\ <<ThemeSpecs[c].chapter_title, ThemeSpecs[c].subsections[k]>>
              \notin DOMAIN plans_by_section}

\* C26 as stated: in an assembled chapter a section with no plan at all has
\* exactly one line after its heading, a placeholder.
C26_OnePlaceholder ==
    Assembled =>
        \A u \in Unplanned :
            LET spec == ThemeSpecs[u[1]]
                key == <<spec.chapter_title, spec.subsections[u[2]]>>
                body == SectionBody(files[chapter_path(spec)].lines, key)
            IN  Len(body) = 1 /\ body[1].kind \in {"todo narrative", "todo examples"}

\* C26 as amended: in an assembled chapter a section with no plan at all
\* has exactly two lines after its heading: the placeholder for the
\* narrative, then the placeholder for the examples.
C26_TwoPlaceholders ==
    Assembled =>
        \A u \in Unplanned :
            LET spec == ThemeSpecs[u[1]]
                key == <<spec.chapter_title, spec.subsections[u[2]]>>
                body == SectionBody(files[chapter_path(spec)].lines, key)
            IN  body = <<Line("todo narrative", <<>>, 0), Line("todo examples", <<>>, 0)>>

\* a chapter assembled with a section that has no plan and a section that
\* has a plan with examples
C26_Witness ==
    /\ Assembled
    /\ SectionKeys[1] \notin DOMAIN plans_by_section
    /\ Truthy(plans_by_section, SectionKeys[2])
    /\ outputs_by_key # <<>>
    /\ files[chapter_path(ThemeSpecs[1])].kind = "chapter"

\* ------------------------------------------------------------------------
\* C27
\* ------------------------------------------------------------------------
\* C27: a scaffolding generator creates each of its files, with the
\* template as content, when the file does not exist, and changes no file
\* that exists: in a later run, also after the user edited a file, it
\* changes nothing.
C27_WriteIfMissing ==
    [][Generate =>
          /\ \A p \in DOMAIN files : files'[p] = files[p]
          /\ \A p \in SeqToSet(Generators[book_idx].paths) :
                /\ p \in DOMAIN files'
                /\ p \notin DOMAIN files => files'[p] = Template
          /\ run_no > 1 => files' = files]_vars

\* the user edited main.tex after the first run, the generators of the
\* second run have run, and main.tex holds what the user wrote
C27_Witness ==
    /\ run_no = 2
    /\ book_pc = "themes"
    /\ files[<<"", <<"main.tex">>>>] = UserText
    /\ files[<<"", <<"Makefile">>>>] = Template

\* ------------------------------------------------------------------------
\* C29
\* ------------------------------------------------------------------------
Terminal == {"completed"} \cup Fatal

\* the round in progress is polling, downloading or parsing
InRound == pc \in {"poll", "download", "parse"}

\* how far the round in progress is from its end, at most: the polls that
\* may still find the job unfinished, the download, the records still to
\* be read, the end of parsing
StepsLeft ==
    CASE pc = "poll" -> (MaxPolls - calls.retrieve) + MaxRecords + 3
      [] pc = "download" -> MaxRecords + 2
      [] pc = "parse" -> (MaxRecords - nread) + 1
      [] OTHER -> 0

\* C29: a poll that finds a status other than completed, failed, cancelled,
\* expired is followed by another poll, and one that finds one of the four
\* is not; the results of a round that was submitted are downloaded and
\* parsed only after a poll found completed; and a round whose job reaches
\* one of the four statuses ends: while polling the job can be found
\* completed, a download can be made, parsing can end, and each step of a
\* round brings its end nearer.
C29_PollsUntilTerminalStatus ==
    /\ [][(pc = "poll" /\ calls'.retrieve = calls.retrieve + 1) =>
             (pc' = "poll" <=> status' \notin Terminal)]_vars
    /\ []((pc = "download" \/ (pc = "parse" /\ ~reused)) => status = "completed")
    /\ [](InRound => ENABLED (Poll("completed") \/ Download(TRUE) \/ ParseEnd))
    /\ [][InRound => (StepsLeft' < StepsLeft /\ StepsLeft' >= 0)]_vars

\* a submitted round whose job was found in progress, then completed, and
\* whose results have been parsed to the end
C29_Witness ==
    /\ pc = "loop"
    /\ round_idx = 1
    /\ ~reused
    /\ calls.retrieve = 2
    /\ calls.content = 1
    /\ status = "completed"
    /\ nread > 0

\* ------------------------------------------------------------------------
\* C30
\* ------------------------------------------------------------------------
\* of two loaded regions, the one that comes first in the file
EarlierRegion ==
    IF loaded_regions[1].start_line < loaded_regions[2].start_line THEN 1 ELSE 2

\* the original file with the line ranges of both regions, taken at their
\* line numbers in the original file, replaced by their fixes
BothReplaced ==
    LET e == EarlierRegion
        l == 3 - e
    IN  SubSeq(orig_lines, 1, loaded_regions[e].start_line - 1)
            \o fixes[e]
            \o SubSeq(orig_lines, loaded_regions[e].end_line + 1,
                      loaded_regions[l].start_line - 1)
            \o fixes[l]
            \o SubSeq(orig_lines, loaded_regions[l].end_line + 1, Len(orig_lines))

\* the fix of the region that comes first has another number of lines than
\* the range it replaces
EarlierFixChangesLength ==
    LET region == loaded_regions[EarlierRegion]
    IN  Len(fixes[EarlierRegion]) # region.end_line - region.start_line + 1

\* C30: after a run on two regions of one file whose line ranges do not
\* overlap, the fix of the earlier one having another number of lines than
\* its range, the file is the original with each range, at its line
\* numbers in the original, replaced by its fix.
C30_LaterRegionKeepsItsLines ==
    (patch_pc = "done" /\ Len(loaded_regions) = 2 /\ DisjointRegions
        /\ EarlierFixChangesLength) =>
        all_lines = BothReplaced

\* ------------------------------------------------------------------------
\* C33
\* ------------------------------------------------------------------------
\* the errors, in the order of the log, that are at the place of region r
ErrorsOf(r) ==
    {k \in 1..Len(attributed) :
        /\ attributed[k].junk = <<>>
        /\ attributed[k].path = regions[r].file
        /\ base_errors[k].line = regions[r].error_line}

\* C33: no two regions have the same file and error line, every region is
\* at the place of an error, and the regions are in the order in which
\* their places first occur among the errors of the log.
C33_NoDuplicateRegions ==
    /\ \A r1, r2 \in 1..Len(regions) :
          r1 < r2 =>
              <<regions[r1].file, regions[r1].error_line>>
                  # <<regions[r2].file, regions[r2].error_line>>
    /\ \A r \in 1..Len(regions) : ErrorsOf(r) # {}
    /\ \A r1, r2 \in 1..Len(regions) :
          (r1 < r2 /\ ErrorsOf(r1) # {} /\ ErrorsOf(r2) # {}) =>
              SetMin(ErrorsOf(r1)) < SetMin(ErrorsOf(r2))

\* a log with two errors at the same line of the same file, which exists:
\* one region
C33_Witness ==
    /\ scan_pc = "done"
    /\ Len(base_errors) = 2
    /\ attributed[1] = attributed[2]
    /\ base_errors[1].line = base_errors[2].line
    /\ Len(regions) = 1
    /\ ErrorsOf(1) = {1, 2}

\* ------------------------------------------------------------------------
\* C34
\* ------------------------------------------------------------------------
\* the lines of the log that hold an error message
ErrorLines == {i \in 1..Len(log_text) : log_text[i].kind = "error"}

\* line i is followed, within the next LookAhead lines, by a line "l.<n>"
HasLineNo(i) ==
    \E j \in (i + 1)..(i + LookAhead) :
        j <= Len(log_text) /\ log_text[j].kind = "lineno"

\* C34: once the log is parsed, the errors kept are, in the order of the
\* log, the error lines followed by a line "l.<n>" within the next 5
\* lines: an error line without one is in no entry, it is the place of no
\* region, and the error lines after it are kept as if it were not there.
C34_ErrorWithoutLineNoIsDropped ==
    scan_pc # "parse" =>
        /\ {base_errors[k].at : k \in 1..Len(base_errors)}
              = {i \in ErrorLines : HasLineNo(i)}
        /\ \A k1, k2 \in 1..Len(base_errors) :
              k1 < k2 => base_errors[k1].at < base_errors[k2].at
        /\ \A k \in 1..Len(base_errors) :
              \E j \in (base_errors[k].at + 1)..(base_errors[k].at + LookAhead) :
                  /\ j <= Len(log_text)
                  /\ log_text[j].kind = "lineno"
                  /\ log_text[j].n = base_errors[k].line
        /\ \A r \in 1..Len(regions) :
              \E k \in ErrorsOf(r) : HasLineNo(base_errors[k].at)

\* a log whose first error has no line "l.<n>" and whose second has one:
\* one entry, for the second, and its region
C34_Witness ==
    /\ scan_pc = "done"
    /\ Cardinality(ErrorLines) = 2
    /\ ~HasLineNo(SetMin(ErrorLines))
    /\ Len(base_errors) = 1
    /\ base_errors[1].at = SetMax(ErrorLines)
    /\ Len(regions) = 1

\* ------------------------------------------------------------------------
\* C35
\* ------------------------------------------------------------------------
\* error k is the first of the log at its place
FirstAtItsPlace(k) ==
    \A j \in 1..(k - 1) :
        <<attributed[j], base_errors[j].line>> # <<attributed[k], base_errors[k].line>>

\* the file error k resolves to exists
FileExists(k) ==
    /\ attributed[k].junk = <<>>
    /\ attributed[k].path \in DOMAIN disk
    /\ disk[attributed[k].path].exists

\* C35: when all errors are processed, an error whose file does not exist
\* is at the place of no region, and the regions are, one for one, the
\* errors that are the first at their place and whose file exists.
C35_MissingFileIsSkipped ==
    scan_pc = "done" =>
        /\ Len(attributed) = Len(base_errors)
        /\ \A k \in 1..Len(attributed) :
              ~FileExists(k) =>
                  ~\E r \in 1..Len(regions) : k \in ErrorsOf(r)
        /\ \A k \in 1..Len(attributed) :
              (FileExists(k) /\ FirstAtItsPlace(k)) =>
                  \E r \in 1..Len(regions) : k \in ErrorsOf(r)
        /\ Len(regions) =
              Cardinality({k \in 1..Len(attributed) : FileExists(k) /\ FirstAtItsPlace(k)})

\* the file of the first error does not exist, the file of the second
\* does: one region, for the second error
C35_Witness ==
    /\ scan_pc = "done"
    /\ Len(base_errors) = 2
    /\ ~FileExists(1)
    /\ FileExists(2)
    /\ Len(regions) = 1
    /\ ErrorsOf(1) = {2}

\* ------------------------------------------------------------------------
\* C31
\* ------------------------------------------------------------------------
\* C31: when run_example_batch has returned, the ids of two distinct
\* examples of the plans it was given are distinct, so spec_by_custom_id, whose keys are the requests of round 1, has one key
\* for each example of every section that has a plan, and each key leads
\* to its own example.
C31_OneRequestPerPlannedExample ==
    (book_pc = "assemble" /\ book_idx = 1) =>
    LET ids == PlannedFrom(1, plans_by_section)
        metas == spec_by_custom_id(plans_by_section)
    IN  /\ \A i, j \in 1..Len(ids) : i # j => custom_id(ids[i]) # custom_id(ids[j])
        /\ Cardinality(DOMAIN metas) = Len(ids)
        /\ \A i \in 1..Len(ids) : metas[custom_id(ids[i])] = ids[i]
        /\ \A s \in 1..Len(SectionKeys) :
              Truthy(plans_by_section, SectionKeys[s]) =>
                  \A k \in 1..Len(plans_by_section[SectionKeys[s]].examples) :
                      \E cid \in DOMAIN metas :
                          metas[cid] = <<SectionKeys[s][1], SectionKeys[s][2], k - 1>>

\* every section has a plan with two examples and the batch returned an
\* output for each of the six
C31_Witness ==
    /\ book_pc = "assemble"
    /\ book_idx = 1
    /\ Len(PlannedFrom(1, plans_by_section)) = 6
    /\ Cardinality(DOMAIN spec_by_custom_id(plans_by_section)) = 6
    /\ Cardinality(DOMAIN outputs_by_key) = 6

\* ------------------------------------------------------------------------
\* C32
\* ------------------------------------------------------------------------
\* the lines of text are in lines, one after the other from some line on:
\* the first after any leading spaces, the others as they are
Embeds(lines, text) ==
    \E k \in 0..(Len(lines) - Len(text)) :
        \A i \in 1..Len(text) :
            /\ lines[k + i].ink = text[i].ink
            /\ i = 1 => lines[k + i].indent >= text[i].indent
            /\ i > 1 => lines[k + i].indent = text[i].indent

\* C32: the prompt built in a round >= 2 is the full prompt of round 1
\* when the example has no combined text (no entry, or an empty one), and
\* otherwise a continuation prompt that holds the whole combined text.
C32_ContinuationEmbedsCombinedText ==
    (prompt_pc = "built" /\ prompt_args.round_idx >= 2) =>
        IF prompt_args.stored.lines = <<>>
        THEN prompt.kind = "full"
        ELSE /\ prompt.kind = "continuation"
             /\ Embeds(prompt.lines, prompt_args.stored.lines)

\* ------------------------------------------------------------------------
\* C37
\* ------------------------------------------------------------------------
\* the round could not build its requests: spec_by_custom_id[custom_id]
\* raised KeyError
KeyErrorRaised == pc = "raised" /\ round_idx >= 1 /\ requests = <<>>

\* C37: at the start of every round every id of the list of ids to
\* resubmit is the id of a planned example, whatever the results file of
\* the round before held, and the building of a round's requests never
\* fails on an unknown id.
C37_ResubmittedIdsArePlanned ==
    /\ pc = "loop" => SeqToSet(remaining_ids) \subseteq SeqToSet(planned)
    /\ ~KeyErrorRaised

\* ------------------------------------------------------------------------
\* C38
\* ------------------------------------------------------------------------
\* an id occurs at most once in the list
NoIdTwice(ids) == \A i, j \in 1..Len(ids) : ids[i] = ids[j] => i = j

\* the ids whose state is not completed
NotCompletedIds ==
    {id \in DOMAIN example_state_by_id : ~example_state_by_id[id].completed}

\* C38: the list parse_round_results returns (remaining_ids, once the
\* results file of the round is parsed to its end) holds no id twice and
\* holds exactly the ids whose state is then not completed, also when
\* several records of the file name the same id.
C38_ReturnedListIsTheIncompleteSet ==
    (pc = "loop" /\ RoundParsed) =>
        /\ NoIdTwice(remaining_ids)
        /\ SeqToSet(remaining_ids) = NotCompletedIds

\* ------------------------------------------------------------------------
\* C36
\* ------------------------------------------------------------------------
\* the lines of a chapter file that open something emitted for an example
IsExampleMark(l) == l.kind \in {"todo example", "inquiry header", "solution header"}

\* what the chapter must show for one planned example: the headers of its
\* blocks when it has an output, the placeholder when it has none
ExpectedMarks(okey) ==
    IF okey \in DOMAIN outputs_by_key
    THEN (IF Strip(outputs_by_key[okey].inquiry) # <<>>
          THEN <<Line("inquiry header", outputs_by_key[okey].title, okey[3] + 1)>>
          ELSE <<>>)
         \o <<Line("solution header", outputs_by_key[okey].title, okey[3] + 1)>>
    ELSE <<Line("todo example", ExampleTitle(plans_by_section, okey), okey[3] + 1)>>

RECURSIVE ExpectedMarksFrom(_, _)
ExpectedMarksFrom(okeys, k) ==
    IF k > Len(okeys) THEN <<>>
    ELSE ExpectedMarks(okeys[k]) \o ExpectedMarksFrom(okeys, k + 1)

\* the planned examples of chapter c, in plan order
PlannedOfChapter(c) ==
    LET InChapter(okey) == okey[1] = ThemeSpecs[c].chapter_title
    IN  SelectSeq(PlannedFrom(1, plans_by_section), InChapter)

\* chapter c has been assembled in this run
ChapterAssembled(c) ==
    /\ \/ book_pc = "assemble" /\ c < book_idx
       \/ book_pc = "done" /\ use_openai /\ api_key
    /\ chapter_path(ThemeSpecs[c]) \in DOMAIN files
    /\ files[chapter_path(ThemeSpecs[c])].kind = "chapter"

\* C36: an assembled chapter shows, for every planned example of its
\* sections and in plan order, the inquiry block (only when it is not
\* empty) and then the solution block when the example has an output, and
\* exactly one not-yet-generated placeholder when it has none; a header is
\* followed by its block, and no planned example is left out.
C36_EveryPlannedExampleIsEmitted ==
    \A c \in 1..Len(ThemeSpecs) :
        ChapterAssembled(c) =>
            LET lines == files[chapter_path(ThemeSpecs[c])].lines
            IN  /\ SelectSeq(lines, IsExampleMark) = ExpectedMarksFrom(PlannedOfChapter(c), 1)
                /\ \A i \in 1..Len(lines) :
                      /\ lines[i].kind = "inquiry header" =>
                            /\ i < Len(lines)
                            /\ lines[i + 1].kind = "text"
                            /\ lines[i + 1].text # <<>>
                      /\ lines[i].kind = "solution header" =>
                            /\ i < Len(lines)
                            /\ lines[i + 1].kind = "text"

\* a chapter is assembled in which one planned example has an output with
\* an empty inquiry block and another has no output
C36_Witness ==
    \E c \in 1..Len(ThemeSpecs) :
        /\ ChapterAssembled(c)
        /\ \E i, j \in 1..Len(PlannedOfChapter(c)) :
              /\ PlannedOfChapter(c)[i] \in DOMAIN outputs_by_key
              /\ Strip(outputs_by_key[PlannedOfChapter(c)[i]].inquiry) = <<>>
              /\ PlannedOfChapter(c)[j] \notin DOMAIN outputs_by_key

\* ------------------------------------------------------------------------
\* C39
\* ------------------------------------------------------------------------
\* What the results files read so far give for an example, told from the
\* text segments of its records in the order of the files: each segment is
\* joined to the text before it.
RECURSIVE TextFrom(_, _, _)
TextFrom(segments, k, text) ==
    IF k > Len(segments) THEN text
    ELSE TextFrom(segments, k + 1, CombineText(text, segments[k]))

ReplayText(id) == TextFrom(Get(segments_by_id, id, <<>>), 1, <<>>)

\* the outputs the finalization builds from those texts
ReplayOutputs ==
    LET with_text == {id \in SeqToSet(planned) : Strip(ReplayText(id)) # <<>>}
    IN  [id \in with_text |-> BuildOutput(Strip(ReplayText(id)))]

\* what run_example_batch returned: {} or example_outputs
ReturnValue == IF returned = "outputs" THEN example_outputs ELSE <<>>

\* C39: what run_example_batch returns is fixed by the plans and by the
\* results files of its rounds (two runs with the same plans and the same
\* results files return the same outputs), and once the results of a round
\* are parsed the CombinedText of every example is fixed by the records of
\* the files, whether the round reused its results file or downloaded it.
C39_OutputsFixedByPlansAndFiles ==
    /\ pc = "done" =>
          \A id \in AllIds :
              /\ id \in DOMAIN ReturnValue <=> id \in DOMAIN ReplayOutputs
              /\ id \in DOMAIN ReturnValue => ReturnValue[id] = ReplayOutputs[id]
    /\ (pc = "loop" /\ RoundParsed) =>
          \A id \in DOMAIN combined_text_by_id : combined_text_by_id[id] = ReplayText(id)

====
